---- MODULE Spec2Model ----
(***************************************************************************)
(* A model of the r3fresh ALM SDK: the tool interception pipeline          *)
(* (tool.py), the policy engine (policy.py), the error normalizer and the  *)
(* redaction rule (util.py), the run scope (run.py), the ALM object        *)
(* (alm.py) and the event client (client.py).                              *)
(*                                                                         *)
(* Python values are modelled as records of one shape, so that any two of  *)
(* them can be compared: kind says which of the fields is meaningful.      *)
(* Identifiers (uuid4) are positive integers handed out by a counter, 0    *)
(* stands for None.  Texts (str built by f-strings) are sequences of       *)
(* fragments.                                                              *)
(***************************************************************************)
EXTENDS Integers, Sequences, FiniteSets, TLC

VARIABLES
    policy,        \* alm.policy: the Policy object's attributes
    runs,          \* every Run object created by alm.run(), in creation order
    current_run,   \* alm._current_run: index into runs, 0 for None
    queue,         \* alm.client._queue
    delivered,     \* what flush has written to the sink (stdout lines)
    next_id,       \* the source of new_id(): ids handed out so far
    now,           \* the clock read by time.time()
    calls,         \* every invocation of a wrapped tool: the wrapper's locals
    stack,         \* the invocations in progress, innermost last
    emitted,       \* history: every event passed to client.emit
    passed,        \* history: callables started since the last run entry
    last_check,    \* history: the last call of policy.check_tool and its answer
    client,        \* alm.client: the EventClient's mode and batch_size
    stderr,        \* what the SDK has printed to sys.stderr
    tasks,         \* every TaskContext entered by a with statement
    handoff_calls, \* history: every call of alm.handoff() and how it ended
    threads,       \* the threads that use one EventClient: their locals
    errors         \* history: the calls the host made of create_structured_error

vars == <<policy, runs, current_run, queue, delivered, next_id, now, calls,
          stack, emitted, passed, last_check, client, stderr, tasks,
          handoff_calls, threads, errors>>

-----------------------------------------------------------------------------
(* Bounds of the exploration. *)

MaxCalls == 2      \* invocations of wrapped tools in one behaviour
MaxRuns == 1       \* Run objects created
MaxBudget == 1     \* largest max_tool_calls_per_run configured
MaxCount == 2      \* record_tool_call() calls made on a policy taken on its own
MaxScopeCalls == 1 \* invocations of wrapped tools where run scopes exit by exceptions
MaxNestedRuns == 2 \* Run objects created where a run is entered inside a run
MaxNestedCalls == 2 \* invocations of wrapped tools around runs entered inside runs
MaxTasks == 2      \* task scopes entered
MaxHandoffs == 1   \* calls of alm.handoff()
MaxEmits == 3      \* events passed to emit by the threads of one EventClient
MaxDepth == 2      \* nesting depth of the values given to redact_sensitive
MaxThreadCalls == 2 \* invocations of wrapped tools made by the threads of one ALM
MaxOldCalls == 1   \* invocations of tools wrapped by the alm_sdk package
MaxCreatedRuns == 2 \* Run objects created where creation and entry are apart
MaxTimedCalls == 2  \* invocations of wrapped tools whose latencies can be zero
MaxErrors == 1     \* calls of create_structured_error made by the host
MaxCreatedCalls == 1 \* invocations of wrapped tools around such runs

-----------------------------------------------------------------------------
(* Python values. *)

NoneV == [kind |-> "none", chars |-> <<>>, n |-> 0, items |-> <<>>]
StrV(c) == [kind |-> "str", chars |-> c, n |-> 0, items |-> <<>>]
IntV(i) == [kind |-> "int", chars |-> <<>>, n |-> i, items |-> <<>>]
\* a dict is the sequence of its <<key, value>> pairs in insertion order
DictV(pairs) == [kind |-> "dict", chars |-> <<>>, n |-> 0, items |-> pairs]
ListV(elems) == [kind |-> "list", chars |-> <<>>, n |-> 0, items |-> elems]
TupleV(elems) == [kind |-> "tuple", chars |-> <<>>, n |-> 0, items |-> elems]

\* str.lower() on the characters the model uses
LowerChar(ch) ==
    CASE ch = "A" -> "a" [] ch = "E" -> "e" [] ch = "I" -> "i"
      [] ch = "K" -> "k" [] ch = "P" -> "p" [] ch = "Y" -> "y"
      [] ch = "T" -> "t" [] ch = "O" -> "o" [] ch = "N" -> "n"
      [] ch = "S" -> "s" [] ch = "C" -> "c" [] ch = "R" -> "r"
      [] ch = "M" -> "m" [] ch = "U" -> "u"
      [] OTHER -> ch

Lower(c) == [i \in 1..Len(c) |-> LowerChar(c[i])]

\* sub in c, for two strings
Contains(c, sub) ==
    \E i \in 1..(Len(c) - Len(sub) + 1) : SubSeq(c, i, i + Len(sub) - 1) = sub

max_length == 1000

TruncatedMarker == <<".", ".", ".", " ", "(", "t", "r", "u", "n", "c", "a", "t", "e", "d", ")">>

RedactedMarker == StrV(<<"*", "*", "*", "R", "E", "D", "A", "C", "T", "E", "D", "*", "*", "*">>)

sensitive_keys ==
    { <<"p", "a", "s", "s", "w", "o", "r", "d">>,
      <<"t", "o", "k", "e", "n">>,
      <<"a", "p", "i", "_", "k", "e", "y">>,
      <<"a", "p", "i", "k", "e", "y">>,
      <<"s", "e", "c", "r", "e", "t">>,
      <<"k", "e", "y">> }

\* any(sensitive in key_lower for sensitive in sensitive_keys)
IsSensitiveKey(k) == \E s \in sensitive_keys : Contains(Lower(k.chars), s)

\* redact_sensitive raises AttributeError: k.lower() on a key that is no str.
\* A value under a sensitive key is replaced without being looked into.
RECURSIVE RedactRaises(_)
RedactRaises(v) ==
    CASE v.kind = "dict" ->
           \E i \in 1..Len(v.items) :
              \/ v.items[i][1].kind # "str"
              \/ /\ ~IsSensitiveKey(v.items[i][1])
                 /\ RedactRaises(v.items[i][2])
      [] v.kind = "list" -> \E i \in 1..Len(v.items) : RedactRaises(v.items[i])
      [] OTHER -> FALSE

\* the value redact_sensitive returns when it does not raise
RECURSIVE redact_sensitive(_)
redact_sensitive(v) ==
    CASE v.kind = "str" ->
           IF Len(v.chars) > max_length
           THEN StrV(SubSeq(v.chars, 1, max_length) \o TruncatedMarker)
           ELSE v
      [] v.kind = "dict" ->
           DictV([i \in 1..Len(v.items) |->
                    IF IsSensitiveKey(v.items[i][1])
                    THEN <<v.items[i][1], RedactedMarker>>
                    ELSE <<v.items[i][1], redact_sensitive(v.items[i][2])>>])
      [] v.kind = "list" ->
           ListV([i \in 1..Len(v.items) |-> redact_sensitive(v.items[i])])
      [] OTHER -> v

\* normalize_args for a call that binds: {"inputs": {parameter: argument}}
normalize_args(params, args) ==
    IF Len(args) = Len(params)
    THEN DictV(<< <<StrV(<<"i", "n", "p", "u", "t", "s">>),
                    DictV([i \in 1..Len(params) |-> <<StrV(params[i]), args[i]>>])>> >>)
    ELSE DictV(<< <<StrV(<<"a", "r", "g", "s">>), ListV(args)>>,
                  <<StrV(<<"k", "w", "a", "r", "g", "s">>), DictV(<<>>)>> >>)

-----------------------------------------------------------------------------
(* Exceptions and structured errors. *)

Exc(type, message) == [type |-> type, message |-> message]
NoExc == Exc("", <<>>)

\* the classes that derive from BaseException and not from Exception
IsException(e) == e.type \notin {"KeyboardInterrupt", "SystemExit", "GeneratorExit"}

\* the fragments of the model's messages that hold "timeout" in some case
TimeoutFragments == {"Simulated timeout talking to db", "TIMEOUT"}

\* "timeout" in error_message.lower(), for a message given as fragments
\* and for one given character by character
MentionsTimeout(message) ==
    \/ \E i \in 1..Len(message) : message[i] \in TimeoutFragments
    \/ Contains(Lower(message), <<"t", "i", "m", "e", "o", "u", "t">>)

retryable_errors ==
    {"ConnectionError", "TimeoutError", "TemporaryFailure", "RateLimitError",
     "ServiceUnavailableError"}

NoError == [type |-> "", message |-> <<>>, source |-> "", retryable |-> FALSE]

\* a normalizer that labels every failure with the base class name
create_structured_error_BaseName(e, source) ==
    [type |-> "Exception", message |-> e.message, source |-> source,
     retryable |-> (e.type \in retryable_errors \/ MentionsTimeout(e.message))]

\* create_structured_error(exception, source) with retryable=None
create_structured_error(e, source) ==
    [type |-> e.type, message |-> e.message, source |-> source,
     retryable |-> (e.type \in retryable_errors \/ MentionsTimeout(e.message))]

\* a normalizer that takes retryable=False for no flag: if not retryable
create_structured_error_flag_Truthy(e, source, retryable) ==
    IF retryable # "True"
    THEN create_structured_error(e, source)
    ELSE [type |-> e.type, message |-> e.message, source |-> source,
          retryable |-> TRUE]

\* create_structured_error(exception, source, retryable=...); retryable is
\* "None", "True" or "False"
create_structured_error_flag(e, source, retryable) ==
    IF retryable = "None"
    THEN create_structured_error(e, source)
    ELSE [type |-> e.type, message |-> e.message, source |-> source,
          retryable |-> (retryable = "True")]

\* what k.lower() raises for an int key
AttributeErrorLower == Exc("AttributeError", <<"'int' object has no attribute 'lower'">>)

-----------------------------------------------------------------------------
(* Policy (policy.py). *)

\* max_tool_calls_per_run=None
NoBudget == -1

Policy(allowed_tools, denied_tools, default_allow, max_tool_calls_per_run) ==
    [allowed_tools |-> allowed_tools,
     denied_tools |-> denied_tools,
     default_allow |-> default_allow,
     max_tool_calls_per_run |-> max_tool_calls_per_run,
     tool_call_count |-> 0]

\* the answers of check_tool
BudgetExceeded(p) ==
    <<FALSE, <<"Budget exceeded: ", ToString(p.tool_call_count), "/",
               ToString(p.max_tool_calls_per_run), " tool calls">> >>

InDeniedTools(tool_name) ==
    <<FALSE, <<"Tool '", tool_name, "' is in denied_tools list">> >>

NotInAllowedTools(tool_name) ==
    <<FALSE, <<"Tool '", tool_name, "' is not in allowed_tools list">> >>

DefaultDeny == <<FALSE, <<"default_allow is False and no allowed_tools specified">> >>

AllowedAnswer == <<TRUE, <<"allowed">> >>

\* a budget test that lets one call more through: > for >=
check_tool_BudgetOffByOne(p, tool_name) ==
    IF /\ p.max_tool_calls_per_run # NoBudget
       /\ p.tool_call_count > p.max_tool_calls_per_run
    THEN BudgetExceeded(p)
    ELSE IF tool_name \in p.denied_tools THEN InDeniedTools(tool_name)
    ELSE IF p.allowed_tools # {} /\ tool_name \notin p.allowed_tools
    THEN NotInAllowedTools(tool_name)
    ELSE IF ~p.default_allow /\ p.allowed_tools = {} THEN DefaultDeny
    ELSE AllowedAnswer

\* the allow-list looked at before the deny-list: a listed name is allowed
check_tool_AllowListFirst(p, tool_name) ==
    IF /\ p.max_tool_calls_per_run # NoBudget
       /\ p.tool_call_count >= p.max_tool_calls_per_run
    THEN BudgetExceeded(p)
    ELSE IF tool_name \in p.allowed_tools THEN AllowedAnswer
    ELSE IF tool_name \in p.denied_tools THEN InDeniedTools(tool_name)
    ELSE IF p.allowed_tools # {} THEN NotInAllowedTools(tool_name)
    ELSE IF ~p.default_allow THEN DefaultDeny
    ELSE AllowedAnswer

\* default_allow consulted also when an allow-list is configured
check_tool_DefaultAlways(p, tool_name) ==
    IF /\ p.max_tool_calls_per_run # NoBudget
       /\ p.tool_call_count >= p.max_tool_calls_per_run
    THEN BudgetExceeded(p)
    ELSE IF tool_name \in p.denied_tools THEN InDeniedTools(tool_name)
    ELSE IF p.allowed_tools # {} /\ tool_name \notin p.allowed_tools
    THEN NotInAllowedTools(tool_name)
    ELSE IF ~p.default_allow THEN DefaultDeny
    ELSE AllowedAnswer

\* Policy.check_tool: <<allowed, reason>>
check_tool(p, tool_name) ==
    IF /\ p.max_tool_calls_per_run # NoBudget
       /\ p.tool_call_count >= p.max_tool_calls_per_run
    THEN <<FALSE, <<"Budget exceeded: ", ToString(p.tool_call_count), "/",
                    ToString(p.max_tool_calls_per_run), " tool calls">> >>
    ELSE IF tool_name \in p.denied_tools
    THEN <<FALSE, <<"Tool '", tool_name, "' is in denied_tools list">> >>
    ELSE IF p.allowed_tools # {} /\ tool_name \notin p.allowed_tools
    THEN <<FALSE, <<"Tool '", tool_name, "' is not in allowed_tools list">> >>
    ELSE IF ~p.default_allow /\ p.allowed_tools = {}
    THEN <<FALSE, <<"default_allow is False and no allowed_tools specified">> >>
    ELSE <<TRUE, <<"allowed">> >>

\* the Policy object after check_tool: the method assigns no attribute
policy_after_check_tool(p, tool_name) == p

\* one call of check_tool: the object before and after, and what it answered
Check(p, tool_name) ==
    [tool |-> tool_name, before |-> p,
     after |-> policy_after_check_tool(p, tool_name),
     answer |-> check_tool(p, tool_name)]

\* no call of check_tool yet
NoCheck ==
    [tool |-> "", before |-> Policy({}, {}, FALSE, NoBudget),
     after |-> Policy({}, {}, FALSE, NoBudget), answer |-> <<FALSE, <<>> >>]

\* a counter that counts a call twice
record_tool_call_Twice(p) == [p EXCEPT !.tool_call_count = @ + 2]

\* Policy.record_tool_call
record_tool_call(p) == [p EXCEPT !.tool_call_count = @ + 1]

\* a reset that leaves the counter as it is
reset_budget_Keeps(p) == p

\* Policy.reset_budget
reset_budget(p) == [p EXCEPT !.tool_call_count = 0]

-----------------------------------------------------------------------------
(* Events (events.py).  One record shape for the seven kinds; a field a    *)
(* kind does not have keeps its empty value.  call is history: the index   *)
(* of the invocation whose wrapper built the event, 0 outside a wrapper.   *)

\* sum(samples) / len(samples) kept as the exact quotient num / den
Quotient(num, den) == [num |-> num, den |-> den]

\* the summary of run.end; every other event keeps this empty one
NoSummary ==
    [tool_calls_total |-> 0, tool_calls_allowed |-> 0, tool_calls_denied |-> 0,
     tool_calls_error |-> 0, tool_calls_retried |-> 0,
     avg_tool_latency_ms |-> Quotient(0, 1),
     avg_policy_latency_ms |-> Quotient(0, 1),
     total_run_duration_ms |-> 0,
     tasks_completed |-> 0, tasks_failed |-> 0, handoffs |-> 0]

Event(event_id, event_type, run_id) ==
    [event_id |-> event_id, event_type |-> event_type, run_id |-> run_id,
     tool_name |-> "", tool_call_id |-> 0, attempt |-> 0, retries |-> 0,
     args |-> NoneV, decision |-> "", reason |-> <<>>, status |-> "",
     policy_latency_ms |-> 0, tool_latency_ms |-> 0, total_latency_ms |-> 0,
     latency_ms |-> 0, error |-> NoError, result |-> NoneV, success |-> FALSE,
     task_id |-> 0, to_agent_id |-> "", summary |-> NoSummary, call |-> 0]

tool_request_event(event_id, run_id, tool_name, tool_call_id, args, attempt) ==
    [Event(event_id, "tool.request", run_id) EXCEPT
        !.tool_name = tool_name, !.tool_call_id = tool_call_id,
        !.args = args, !.attempt = attempt]

\* a decision event that takes its own event_id for the tool_call_id
policy_decision_event_OwnId(event_id, run_id, tool_name, tool_call_id, decision, reason, latency_ms, attempt) ==
    [Event(event_id, "policy.decision", run_id) EXCEPT
        !.tool_name = tool_name, !.tool_call_id = event_id,
        !.decision = decision, !.reason = reason, !.latency_ms = latency_ms,
        !.attempt = attempt]

policy_decision_event(event_id, run_id, tool_name, tool_call_id, decision, reason, latency_ms, attempt) ==
    [Event(event_id, "policy.decision", run_id) EXCEPT
        !.tool_name = tool_name, !.tool_call_id = tool_call_id,
        !.decision = decision, !.reason = reason, !.latency_ms = latency_ms,
        !.attempt = attempt]

\* a response event with tool_latency_ms and total_latency_ms exchanged
tool_response_event_Swapped(event_id, run_id, tool_name, tool_call_id, status, policy_latency_ms, tool_latency_ms, total_latency_ms, attempt, retries, error, result) ==
    [Event(event_id, "tool.response", run_id) EXCEPT
        !.tool_name = tool_name, !.tool_call_id = tool_call_id,
        !.status = status, !.policy_latency_ms = policy_latency_ms,
        !.tool_latency_ms = total_latency_ms,
        !.total_latency_ms = tool_latency_ms, !.attempt = attempt,
        !.retries = retries, !.error = error, !.result = result]

tool_response_event(event_id, run_id, tool_name, tool_call_id, status, policy_latency_ms, tool_latency_ms, total_latency_ms, attempt, retries, error, result) ==
    [Event(event_id, "tool.response", run_id) EXCEPT
        !.tool_name = tool_name, !.tool_call_id = tool_call_id,
        !.status = status, !.policy_latency_ms = policy_latency_ms,
        !.tool_latency_ms = tool_latency_ms,
        !.total_latency_ms = total_latency_ms, !.attempt = attempt,
        !.retries = retries, !.error = error, !.result = result]

\* run.py passes no event_id to the run events
run_start_event(run_id) == Event(0, "run.start", run_id)

run_end_event(run_id, success, error, summary) ==
    [Event(0, "run.end", run_id) EXCEPT
        !.success = success, !.error = error, !.summary = summary]

\* event_id is the first parameter of every constructor of events.py and
\* has no default.  Unpassed stands for a call that gives it no argument.
Unpassed == -1

\* what such a call raises, before the body of the constructor runs
MissingEventId(constructor) ==
    Exc("TypeError", <<constructor, "() missing 1 required positional argument: 'event_id'">>)

task_start_event(event_id, run_id, task_id) ==
    [Event(event_id, "task.start", run_id) EXCEPT !.task_id = task_id]

task_end_event(event_id, run_id, task_id, success, error) ==
    [Event(event_id, "task.end", run_id) EXCEPT
        !.task_id = task_id, !.success = success, !.error = error]

handoff_event(event_id, run_id, to_agent_id, reason) ==
    [Event(event_id, "handoff", run_id) EXCEPT
        !.to_agent_id = to_agent_id, !.reason = reason]

-----------------------------------------------------------------------------
(* The program state as one record, so that the statements of a handler    *)
(* compose as function applications.                                       *)

State ==
    [policy |-> policy, runs |-> runs, current_run |-> current_run,
     queue |-> queue, delivered |-> delivered, next_id |-> next_id,
     now |-> now, calls |-> calls, stack |-> stack, emitted |-> emitted,
     passed |-> passed, last_check |-> last_check, client |-> client,
     stderr |-> stderr, tasks |-> tasks, handoff_calls |-> handoff_calls,
     threads |-> threads, errors |-> errors]

Becomes(s) ==
    /\ policy' = s.policy
    /\ runs' = s.runs
    /\ current_run' = s.current_run
    /\ queue' = s.queue
    /\ delivered' = s.delivered
    /\ next_id' = s.next_id
    /\ now' = s.now
    /\ calls' = s.calls
    /\ stack' = s.stack
    /\ emitted' = s.emitted
    /\ passed' = s.passed
    /\ last_check' = s.last_check
    /\ client' = s.client
    /\ stderr' = s.stderr
    /\ tasks' = s.tasks
    /\ handoff_calls' = s.handoff_calls
    /\ threads' = s.threads
    /\ errors' = s.errors

\* new_id(): the id is s.next_id + 1 in the state TakeId(s)
TakeId(s) == [s EXCEPT !.next_id = @ + 1]

(* EventClient (client.py), stdout mode. *)

batch_size == 50

\* EventClient(mode=..., batch_size=...): the attributes beside the queue
EventClient(mode, size) == [mode |-> mode, batch_size |-> size]

\* a flush that writes the queue out and forgets to clear it
flush_KeepsQueue(s) ==
    IF s.queue = <<>> THEN s
    ELSE [s EXCEPT !.delivered = @ \o s.queue]

\* EventClient.flush: the queue is written out and cleared
flush(s) ==
    IF s.queue = <<>> THEN s
    ELSE [s EXCEPT !.delivered = @ \o s.queue, !.queue = <<>>]

\* EventClient.emit, for the wrapper of invocation c (0: no wrapper)
emit(s, event, c) ==
    LET e == [event EXCEPT !.call = c]
        q == [s EXCEPT !.queue = Append(@, e), !.emitted = Append(@, e)]
    IN IF Len(q.queue) >= s.client.batch_size THEN flush(q) ELSE q

(* EventClient.flush statement by statement, for a client that several      *)
(* threads use: threads[t] holds the locals of thread t.                    *)

Thread ==
    [pc |-> "idle",             \* idle, flush, deliver, write, clear
     op |-> "",                 \* history: the call made last, emit or flush
     events_to_flush |-> <<>>,  \* the copy of the queue this flush works on
     raised |-> NoExc]          \* history: what emit or flush raised to the thread

\* client.py 62-63: if not self._queue: return
flush_test(s, t) ==
    IF s.queue = <<>>
    THEN [s EXCEPT !.threads[t].pc = "idle"]
    ELSE [s EXCEPT !.threads[t].pc = "deliver"]

\* client.py 80 and 92: list(self._queue), [... for event in self._queue]
flush_copy(s, t) ==
    [s EXCEPT !.threads[t].events_to_flush = s.queue, !.threads[t].pc = "write"]

\* an except clause that lets the failure go on to the caller
flush_except_Reraises(s, t, e) ==
    [s EXCEPT !.stderr = Append(@, <<"ALM SDK: Failed to flush events: ">> \o e.message),
              !.threads[t].raised = e,
              !.threads[t].pc = "clear"]

\* client.py 70-73: except Exception as e: print(..., file=sys.stderr)
flush_except(s, t, e) ==
    [s EXCEPT !.stderr = Append(@, <<"ALM SDK: Failed to flush events: ">> \o e.message),
              !.threads[t].pc = "clear"]

\* client.py 81-84: print writes the events one by one; it raises e at the
\* n-th of them (n = 0: at none)
flush_stdout(s, t, e, n) ==
    IF n = 0
    THEN [s EXCEPT !.delivered = @ \o s.threads[t].events_to_flush,
                   !.threads[t].pc = "clear"]
    ELSE flush_except([s EXCEPT !.delivered =
                          @ \o SubSeq(s.threads[t].events_to_flush, 1, n - 1)],
                      t, e)

\* client.py 93-97: post and raise_for_status; the server has the events
\* when neither raises
flush_http(s, t, e) ==
    IF e = NoExc
    THEN [s EXCEPT !.delivered = @ \o s.threads[t].events_to_flush,
                   !.threads[t].pc = "clear"]
    ELSE flush_except(s, t, e)

\* a finally clause that leaves the queue as it is
flush_finally_KeepsQueue(s, t) ==
    [s EXCEPT !.threads[t].events_to_flush = <<>>, !.threads[t].pc = "idle"]

\* client.py 74-75: finally: self._queue.clear()
flush_finally(s, t) ==
    [s EXCEPT !.queue = <<>>, !.threads[t].events_to_flush = <<>>,
              !.threads[t].pc = "idle"]

\* an emit that flushes only above batch_size
client_emit_Above(s, t, event) ==
    LET q == [s EXCEPT !.queue = Append(@, event), !.emitted = Append(@, event)]
    IN IF Len(q.queue) > s.client.batch_size
       THEN [q EXCEPT !.threads[t].pc = "flush"]
       ELSE q

\* client.py 56-58: the event is appended, and flush is called at batch_size
client_emit(s, t, event) ==
    LET q == [s EXCEPT !.queue = Append(@, event), !.emitted = Append(@, event)]
    IN IF Len(q.queue) >= s.client.batch_size
       THEN [q EXCEPT !.threads[t].pc = "flush"]
       ELSE q

\* ALM._current_run_id
current_run_id(s) ==
    IF s.current_run # 0 /\ s.runs[s.current_run].run_id # 0
    THEN s.runs[s.current_run].run_id
    ELSE 0


-----------------------------------------------------------------------------
(* Run (run.py). *)

Run ==
    [run_id |-> 0, started |-> FALSE, start_time |-> 0,
     tool_calls_total |-> 0, tool_calls_allowed |-> 0, tool_calls_denied |-> 0,
     tool_calls_error |-> 0, tool_calls_retried |-> 0,
     tool_latencies |-> <<>>, policy_latencies |-> <<>>,
     tasks_completed |-> 0, tasks_failed |-> 0, handoffs |-> 0,
     exited |-> FALSE,       \* history: __exit__ has run
     exit_exc |-> NoExc,     \* history: the exc_val __exit__ was given
     propagated |-> NoExc]   \* history: what the caller of the scope gets

\* Run.record_tool_call
run_record_tool_call(r, allowed, denied, error, retried, tool_latency_ms, policy_latency_ms) ==
    [r EXCEPT
        !.tool_calls_total = @ + 1,
        !.tool_calls_allowed = IF allowed THEN @ + 1 ELSE @,
        !.tool_calls_denied = IF denied THEN @ + 1 ELSE @,
        !.tool_calls_error = IF error THEN @ + 1 ELSE @,
        !.tool_calls_retried = IF retried THEN @ + 1 ELSE @,
        !.tool_latencies = IF tool_latency_ms > 0 THEN Append(@, tool_latency_ms) ELSE @,
        !.policy_latencies = IF policy_latency_ms > 0 THEN Append(@, policy_latency_ms) ELSE @]

\* Run.__enter__
run_enter(s, r) ==
    LET s1 == TakeId(s)
        s2 == [s1 EXCEPT !.runs[r].run_id = s1.next_id,
                         !.runs[r].started = TRUE,
                         !.runs[r].start_time = s.now]
        s3 == emit(s2, run_start_event(s2.runs[r].run_id), 0)
    IN [s3 EXCEPT !.policy = reset_budget(@), !.passed = 0]

\* sum(samples)
RECURSIVE Sum(_)
Sum(samples) ==
    IF samples = <<>> THEN 0 ELSE samples[1] + Sum(SubSeq(samples, 2, Len(samples)))

\* an average that divides whatever the number of samples; a quotient
\* with den = 0 stands for the ZeroDivisionError
Average_Unguarded(samples) == Quotient(Sum(samples), Len(samples))

\* sum(samples) / len(samples) if samples else 0.0
Average(samples) ==
    IF samples # <<>> THEN Quotient(Sum(samples), Len(samples)) ELSE Quotient(0, 1)

\* run.py 72-85 and 96-106: the summary statistics of run r at time now;
\* __enter__ has set _start_time whenever _started holds
run_summary(r, time) ==
    [tool_calls_total |-> r.tool_calls_total,
     tool_calls_allowed |-> r.tool_calls_allowed,
     tool_calls_denied |-> r.tool_calls_denied,
     tool_calls_error |-> r.tool_calls_error,
     tool_calls_retried |-> r.tool_calls_retried,
     avg_tool_latency_ms |-> Average(r.tool_latencies),
     avg_policy_latency_ms |-> Average(r.policy_latencies),
     total_run_duration_ms |-> time - r.start_time,
     tasks_completed |-> r.tasks_completed,
     tasks_failed |-> r.tasks_failed,
     handoffs |-> r.handoffs]

\* Run.__exit__(exc_type, exc_val, exc_tb), run.py 64-111: the run.end event
\* and the flush; NoExc for a normal exit
run_exit_telemetry(s, r, exc_val) ==
    IF ~s.runs[r].started THEN s
    ELSE LET success == exc_val = NoExc
             error == IF exc_val # NoExc
                      THEN create_structured_error(exc_val, "agent")
                      ELSE NoError
             s1 == emit(s, run_end_event(s.runs[r].run_id, success, error,
                                         run_summary(s.runs[r], s.now)), 0)
         IN flush(s1)

\* an exit that returns True: the exception in flight is suppressed
run_exit_Swallows(s, r, exc_val) ==
    [run_exit_telemetry(s, r, exc_val) EXCEPT
        !.runs[r].exited = TRUE, !.runs[r].exit_exc = exc_val,
        !.runs[r].propagated = NoExc]

\* Run.__exit__: it returns None or False, the exception in flight goes on
run_exit(s, r, exc_val) ==
    [run_exit_telemetry(s, r, exc_val) EXCEPT
        !.runs[r].exited = TRUE, !.runs[r].exit_exc = exc_val,
        !.runs[r].propagated = exc_val]

\* a run() that leaves the pointer on the run that is current already
alm_run_KeepsCurrent(s) ==
    [s EXCEPT !.runs = Append(@, Run),
              !.current_run = IF @ = 0 THEN Len(s.runs) + 1 ELSE @]

\* ALM.run
alm_run(s) ==
    [s EXCEPT !.runs = Append(@, Run), !.current_run = Len(s.runs) + 1]

\* Run.record_task_completed, Run.record_task_failed, Run.record_handoff
record_task_completed(r) == [r EXCEPT !.tasks_completed = @ + 1]

record_task_failed(r) == [r EXCEPT !.tasks_failed = @ + 1]

record_handoff(r) == [r EXCEPT !.handoffs = @ + 1]

-----------------------------------------------------------------------------
(* Task scopes and handoffs (alm.py). *)

\* ALM.task: TaskContext.__init__
TaskContext ==
    [task_id |-> 0,
     pc |-> "new",          \* new, body (the with body runs), done
     exited |-> FALSE,      \* history: __exit__ has run
     exit_at |-> 0,         \* history: the events emitted before __exit__ ended
     exc |-> NoExc]         \* history: what the with statement raised to its caller

\* the event_id the calls of alm.py give to task_start_event, task_end_event
\* and handoff_event: the keyword is not among those they pass
alm_event_id == Unpassed

\* TaskContext.__enter__ for tasks[t]
task_enter(s, t) ==
    LET s1 == TakeId(s)
        s2 == [s1 EXCEPT !.tasks[t].task_id = s1.next_id]
    IN IF alm_event_id = Unpassed
       THEN [s2 EXCEPT !.tasks[t].pc = "done",
                       !.tasks[t].exc = MissingEventId("task_start_event")]
       ELSE [emit(s2, task_start_event(alm_event_id, current_run_id(s2),
                                       s2.tasks[t].task_id), 0)
               EXCEPT !.tasks[t].pc = "body"]

\* TaskContext.__exit__(exc_type, exc_val, exc_tb) for tasks[t]
task_exit(s, t, exc_val) ==
    LET success == exc_val = NoExc
        error == IF exc_val # NoExc
                 THEN create_structured_error(exc_val, "agent")
                 ELSE NoError
    IN IF alm_event_id = Unpassed
       THEN [s EXCEPT !.tasks[t].pc = "done",
                      !.tasks[t].exc = MissingEventId("task_end_event")]
       ELSE LET s1 == emit(s, task_end_event(alm_event_id, current_run_id(s),
                                             s.tasks[t].task_id, success, error), 0)
                s2 == IF s1.current_run = 0 THEN s1
                      ELSE IF success
                      THEN [s1 EXCEPT !.runs[s1.current_run] = record_task_completed(@)]
                      ELSE [s1 EXCEPT !.runs[s1.current_run] = record_task_failed(@)]
            IN [s2 EXCEPT !.tasks[t].pc = "done", !.tasks[t].exc = exc_val,
                          !.tasks[t].exited = TRUE,
                          !.tasks[t].exit_at = Len(s2.emitted)]

\* ALM.handoff(to_agent_id, reason); handoff_calls is history: the calls
\* made, the run each was recorded in and the events emitted before it
alm_handoff(s, to_agent_id, reason) ==
    LET s1 == IF s.current_run = 0 THEN s
              ELSE [s EXCEPT !.runs[s.current_run] = record_handoff(@)]
    IN IF alm_event_id = Unpassed
       THEN [s1 EXCEPT !.handoff_calls =
                Append(@, [to_agent_id |-> to_agent_id, run |-> s.current_run,
                           at |-> Len(s.emitted),
                           exc |-> MissingEventId("handoff_event")])]
       ELSE [emit(s1, handoff_event(alm_event_id, current_run_id(s1), to_agent_id,
                                    reason), 0)
               EXCEPT !.handoff_calls =
                Append(@, [to_agent_id |-> to_agent_id, run |-> s.current_run,
                           at |-> Len(s.emitted), exc |-> NoExc])]

-----------------------------------------------------------------------------
(* The wrapper of tool.py.  calls[c] holds the locals of invocation c and, *)
(* as history, what its callable did and what its caller saw.              *)

max_retries == 0

MaxAttempts == 3

\* every wrapped tool of the model takes one parameter, message
Params == << <<"m", "e", "s", "s", "a", "g", "e">> >>

Call(tool, args, tool_call_id, parent) ==
    [tool |-> tool, args |-> args, tool_call_id |-> tool_call_id,
     attempt |-> 1, retries |-> 0, pc |-> "start",
     allowed |-> FALSE, reason |-> <<>>, policy_latency_ms |-> 0,
     total_start_time |-> 0, tool_start_time |-> 0,
     parent |-> parent,
     invoked_at |-> 0,       \* history: the time at which the wrapper was called
     executed |-> 0,         \* history: times func was called
     recorded |-> 0,         \* history: what this wrapper added to the budget counter
     decisions |-> <<>>,     \* history: what check_tool answered, attempt by attempt
     stats |-> <<>>,         \* history: the run.record_tool_call() calls made
     func |-> "", func_value |-> NoneV, func_exc |-> NoExc,  \* history: func's last outcome
     outcome |-> "", value |-> NoneV, exc |-> NoExc]         \* what the caller gets

\* the wrapper returns v to its caller
Return(s, c, v) ==
    [s EXCEPT !.calls[c].pc = "done", !.calls[c].outcome = "return",
              !.calls[c].value = v, !.stack = SubSeq(@, 1, Len(@) - 1)]

\* an exception leaves the wrapper
Raise(s, c, e) ==
    [s EXCEPT !.calls[c].pc = "done", !.calls[c].outcome = "raise",
              !.calls[c].exc = e, !.stack = SubSeq(@, 1, Len(@) - 1)]

\* alm_instance.policy.record_tool_call() in the wrapper of c
RecordBudget(s, c) ==
    [s EXCEPT !.policy = record_tool_call(@),
              !.calls[c].recorded =
                  @ + record_tool_call(s.policy).tool_call_count
                    - s.policy.tool_call_count]

\* if alm_instance._current_run: alm_instance._current_run.record_tool_call(...)
RecordStats(s, c, allowed, denied, error, retried, tool_latency_ms, policy_latency_ms) ==
    IF s.current_run = 0 THEN s
    ELSE [s EXCEPT
            !.runs[s.current_run] =
                run_record_tool_call(@, allowed, denied, error, retried,
                                     tool_latency_ms, policy_latency_ms),
            !.calls[c].stats =
                Append(@, [run |-> s.current_run, allowed |-> allowed,
                           denied |-> denied, error |-> error,
                           retried |-> retried, at |-> Len(s.emitted)])]

\* PermissionError(f"Tool '{name}' denied: {reason}")
DeniedError(name, reason) ==
    Exc("PermissionError", <<"Tool '", name, "' denied: ">> \o reason)

\* tool.py 135-160: the policy said allow; func is called
Allowed(s, c, reason, policy_latency_ms) ==
    LET k == s.calls[c]
        s1 == TakeId(s)
        s2 == emit(s1, policy_decision_event(s1.next_id, current_run_id(s1), k.tool,
                                             k.tool_call_id, "allow", reason,
                                             policy_latency_ms, k.attempt), c)
    IN [s2 EXCEPT !.calls[c].tool_start_time = s2.now,
                  !.calls[c].pc = "body",
                  !.calls[c].executed = @ + 1,
                  !.passed = @ + 1]

\* tool.py 76-131: the policy said deny; the decision, the response and the
\* statistics of the denial
DeniedTelemetry(s, c, reason, policy_latency_ms) ==
    LET k == s.calls[c]
        s1 == TakeId(s)
        s2 == emit(s1, policy_decision_event(s1.next_id, current_run_id(s1), k.tool,
                                             k.tool_call_id, "deny", reason,
                                             policy_latency_ms, k.attempt), c)
        total_latency_ms == s2.now - k.total_start_time
        denied_error == create_structured_error(DeniedError(k.tool, reason), "policy")
        s3 == TakeId(s2)
        s4 == emit(s3, tool_response_event(s3.next_id, current_run_id(s3), k.tool,
                                           k.tool_call_id, "denied", policy_latency_ms,
                                           0, total_latency_ms, k.attempt, k.retries,
                                           denied_error, NoneV), c)
    IN RecordStats(s4, c, FALSE, TRUE, FALSE, k.retries > 0, 0, policy_latency_ms)

\* the denial without its raise: control falls through to the call of func
Denied_FallsThrough(s, c, reason, policy_latency_ms) ==
    Allowed(DeniedTelemetry(s, c, reason, policy_latency_ms), c, reason,
            policy_latency_ms)

\* a denial that is counted against the budget before it is raised
Denied_Counts(s, c, reason, policy_latency_ms) ==
    Raise(RecordBudget(DeniedTelemetry(s, c, reason, policy_latency_ms), c), c,
          DeniedError(s.calls[c].tool, reason))

\* tool.py 76-133: the denial ends in raise PermissionError(...)
Denied(s, c, reason, policy_latency_ms) ==
    Raise(DeniedTelemetry(s, c, reason, policy_latency_ms), c,
          DeniedError(s.calls[c].tool, reason))

\* tool.py 46-76: the top of the while loop, up to the policy's answer;
\* the policy check takes dt
Attempt(s, c, dt) ==
    LET k == s.calls[c]
        s0 == [s EXCEPT !.calls[c].total_start_time = s.now]
        normalized_args == normalize_args(Params, k.args)
    IN IF RedactRaises(normalized_args)
       THEN Raise(s0, c, AttributeErrorLower)
       ELSE LET s1 == TakeId(s0)
                s2 == emit(s1, tool_request_event(s1.next_id, current_run_id(s1), k.tool,
                                                  k.tool_call_id,
                                                  redact_sensitive(normalized_args),
                                                  k.attempt), c)
                check == Check(s2.policy, k.tool)
                checked == check.answer
                s3 == [s2 EXCEPT !.now = @ + dt,
                                 !.policy = check.after,
                                 !.last_check = check,
                                 !.calls[c].allowed = checked[1],
                                 !.calls[c].reason = checked[2],
                                 !.calls[c].decisions = Append(@, checked),
                                 !.calls[c].policy_latency_ms = dt]
            IN IF ~checked[1]
               THEN Denied(s3, c, checked[2], dt)
               ELSE Allowed(s3, c, checked[2], dt)

\* tool.py 37-44 and the first pass through the loop
wrapper(s, tool, args, dt) ==
    LET s1 == TakeId(s)
        c == Len(s.calls) + 1
        parent == IF s.stack = <<>> THEN 0 ELSE s.stack[Len(s.stack)]
        s2 == [s1 EXCEPT !.calls = Append(@, [Call(tool, args, s1.next_id, parent)
                                                EXCEPT !.invoked_at = s.now]),
                         !.stack = Append(@, c)]
    IN Attempt(s2, c, dt)

\* a retry test that does not look at the error
should_retry_AnyError(error, attempt) ==
    attempt <= max_retries + 1 /\ attempt < MaxAttempts

\* a retry test whose only limit is the cap, taken as <= for <
should_retry_CapIncluded(error, attempt) ==
    error.retryable /\ attempt <= MaxAttempts

\* should_retry, tool.py 210-214
should_retry(error, attempt) ==
    error.retryable /\ attempt <= max_retries /\ attempt < MaxAttempts

\* tool.py 202-269: except Exception as e
Except(s, c, e, dt) ==
    LET k == s.calls[c]
        tool_latency_ms == s.now - k.tool_start_time
        total_latency_ms == s.now - k.total_start_time
        error == create_structured_error(e, "tool")
    IN IF should_retry(error, k.attempt)
       THEN LET s1 == [s EXCEPT !.calls[c].attempt = @ + 1,
                                !.calls[c].retries = @ + 1]
                s2 == RecordStats(s1, c, TRUE, FALSE, TRUE, TRUE, tool_latency_ms,
                                  k.policy_latency_ms)
            IN Attempt(s2, c, dt)
       ELSE LET s1 == TakeId(s)
                s2 == emit(s1, tool_response_event(s1.next_id, current_run_id(s1), k.tool,
                                                   k.tool_call_id, "error",
                                                   k.policy_latency_ms, tool_latency_ms,
                                                   total_latency_ms, k.attempt, k.retries,
                                                   error, NoneV), c)
                s3 == RecordStats(s2, c, TRUE, FALSE, TRUE, k.retries > 0,
                                  tool_latency_ms, k.policy_latency_ms)
                s4 == RecordBudget(s3, c)
            IN Raise(s4, c, e)

\* tool.py 160-200: func returned result
Success(s, c, result, dt) ==
    LET k == s.calls[c]
        s1 == RecordBudget(s, c)
        tool_latency_ms == s.now - k.tool_start_time
        total_latency_ms == s.now - k.total_start_time
    IN IF result # NoneV /\ RedactRaises(result)
       THEN Except(s1, c, AttributeErrorLower, dt)
       ELSE LET s2 == TakeId(s1)
                s3 == emit(s2, tool_response_event(s2.next_id, current_run_id(s2), k.tool,
                                                   k.tool_call_id, "success",
                                                   k.policy_latency_ms, tool_latency_ms,
                                                   total_latency_ms, k.attempt, k.retries,
                                                   NoError,
                                                   IF result # NoneV
                                                   THEN redact_sensitive(result)
                                                   ELSE NoneV), c)
                s4 == RecordStats(s3, c, TRUE, FALSE, FALSE, k.retries > 0,
                                  tool_latency_ms, k.policy_latency_ms)
            IN Return(s4, c, result)

\* func raised e: caught when it is an Exception, else it leaves the wrapper
Failure(s, c, e, dt) ==
    IF IsException(e) THEN Except(s, c, e, dt) ELSE Raise(s, c, e)


-----------------------------------------------------------------------------
(* The agent program around the SDK: what it constructs, calls and raises. *)

ToolNames == {"x", "y"}

Budgets == {NoBudget} \cup 0..MaxBudget

\* <<allowed_tools, denied_tools, default_allow>>: a deny-list, an allow-list,
\* default deny, and a name on both lists; x is the tool a policy can allow
PolicySamples ==
    { <<{}, {"y"}, TRUE>>,
      <<{"x"}, {}, FALSE>>,
      <<{}, {}, FALSE>>,
      <<{"y"}, {"y"}, TRUE>> }

\* a string, and a dict with an int key
ArgSamples ==
    { << StrV(<<"h", "i">>) >>,
      << DictV(<< <<IntV(1), StrV(<<"v">>)>> >>) >> }

ResultSamples ==
    { StrV(<<"o", "k">>), DictV(<< <<IntV(1), StrV(<<"v">>)>> >>) }

ExcSamples ==
    { Exc("TimeoutError", <<"Simulated timeout talking to db">>),
      Exc("ValueError", <<"Simulated non-retryable failure">>),
      Exc("KeyboardInterrupt", <<>>) }

\* what the clock advances by during a policy check and during a call of func
Delays == {1}

\* ALM(agent_id, allowed_tools=..., denied_tools=..., default_allow=...,
\*     max_tool_calls_per_run=...)
Init ==
    /\ \E c \in PolicySamples, m \in Budgets :
          policy = Policy(c[1], c[2], c[3], m)
    /\ runs = <<>>
    /\ current_run = 0
    /\ queue = <<>>
    /\ delivered = <<>>
    /\ next_id = 0
    /\ now = 0
    /\ calls = <<>>
    /\ stack = <<>>
    /\ emitted = <<>>
    /\ passed = 0
    /\ last_check = NoCheck
    /\ client = EventClient("stdout", batch_size)
    /\ stderr = <<>>
    /\ tasks = <<>>
    /\ handoff_calls = <<>>
    /\ errors = <<>>
    /\ threads = <<>>

Top == stack[Len(stack)]

\* the agent, or the body of the tool in progress, calls a wrapped tool
InvokeTool ==
    /\ Len(calls) < MaxCalls
    /\ \E tool \in ToolNames, args \in ArgSamples, dt \in Delays :
          Becomes(wrapper(State, tool, args, dt))

\* the body of the tool in progress returns
FuncReturns ==
    /\ stack # <<>>
    /\ \E result \in ResultSamples, dt \in Delays, dp \in Delays :
          LET s == [State EXCEPT !.now = @ + dt,
                                 !.calls[Top].func = "return",
                                 !.calls[Top].func_value = result]
          IN Becomes(Success(s, Top, result, dp))

\* the exceptions the body of c can let out: its own, and those its calls raised
Raisable(c) ==
    ExcSamples \cup
    { calls[i].exc : i \in { j \in 1..Len(calls) :
                               calls[j].parent = c /\ calls[j].outcome = "raise" } }

\* the body of the tool in progress raises
FuncRaises ==
    /\ stack # <<>>
    /\ \E e \in Raisable(Top), dt \in Delays, dp \in Delays :
          LET s == [State EXCEPT !.now = @ + dt,
                                 !.calls[Top].func = "raise",
                                 !.calls[Top].func_exc = e]
          IN Becomes(Failure(s, Top, e, dp))

\* with alm.run(...): the Run is created and its scope entered
BeginRun ==
    /\ stack = <<>>
    /\ Len(runs) < MaxRuns
    /\ Becomes(run_enter(alm_run(State), Len(runs) + 1))

\* the scope is left
ExitRun ==
    /\ stack = <<>>
    /\ \E r \in 1..Len(runs), e \in {NoExc} :
          /\ runs[r].started
          /\ ~runs[r].exited
          /\ Becomes(run_exit(State, r, e))

Next ==
    \/ InvokeTool
    \/ FuncReturns
    \/ FuncRaises
    \/ BeginRun
    \/ ExitRun

Spec == Init /\ [][Next]_vars

-----------------------------------------------------------------------------
(* Run scopes that are left normally and by exceptions, around a few tool  *)
(* invocations.                                                            *)

ScopeInvokeTool ==
    /\ Len(calls) < MaxScopeCalls
    /\ InvokeTool

\* what the body of a run scope can let out: its own exceptions, and those
\* the tools it called raised
ScopeRaisable ==
    ExcSamples \cup
    { calls[i].exc : i \in { j \in 1..Len(calls) :
                               calls[j].parent = 0 /\ calls[j].outcome = "raise" } }

\* the scope is left by an exception
ExitRunRaising ==
    /\ stack = <<>>
    /\ \E r \in 1..Len(runs), e \in ScopeRaisable :
          /\ runs[r].started
          /\ ~runs[r].exited
          /\ Becomes(run_exit(State, r, e))

RunNext ==
    \/ ScopeInvokeTool
    \/ FuncReturns
    \/ FuncRaises
    \/ BeginRun
    \/ ExitRun
    \/ ExitRunRaising

RunSpec == Init /\ [][RunNext]_vars

-----------------------------------------------------------------------------
(* Run scopes entered while a run is active: with alm.run(): ... with      *)
(* alm.run(): ..., the tools being called from the scopes' bodies.         *)

\* the body of a scope calls a wrapped tool
NestedInvokeTool ==
    /\ stack = <<>>
    /\ Len(calls) < MaxNestedCalls
    /\ \E tool \in ToolNames, dt \in Delays :
          Becomes(wrapper(State, tool, << StrV(<<"h", "i">>) >>, dt))

\* with alm.run(...), at the top level or in the body of a run scope
BeginNestedRun ==
    /\ stack = <<>>
    /\ Len(runs) < MaxNestedRuns
    /\ Becomes(run_enter(alm_run(State), Len(runs) + 1))

\* the with statement that was entered last is left
ExitInnermostRun ==
    /\ stack = <<>>
    /\ \E r \in 1..Len(runs) :
          /\ runs[r].started
          /\ ~runs[r].exited
          /\ \A q \in (r + 1)..Len(runs) : runs[q].exited
          /\ Becomes(run_exit(State, r, NoExc))

NestedNext ==
    \/ NestedInvokeTool
    \/ FuncReturns
    \/ BeginNestedRun
    \/ ExitInnermostRun

NestedSpec == Init /\ [][NestedNext]_vars

-----------------------------------------------------------------------------
(* Task scopes and handoffs in and around a run, with a few tool calls.    *)

\* with alm.task(...): the TaskContext is created and its scope entered
EnterTask ==
    /\ stack = <<>>
    /\ Len(tasks) < MaxTasks
    /\ \A t \in 1..Len(tasks) : tasks[t].pc = "done"
    /\ Becomes(task_enter([State EXCEPT !.tasks = Append(@, TaskContext)],
                          Len(tasks) + 1))

AgentIds == {"toy-agent-specialist"}

\* alm.handoff(to_agent_id=..., reason=...)
Handoff ==
    /\ stack = <<>>
    /\ Len(handoff_calls) < MaxHandoffs
    /\ \E to_agent_id \in AgentIds :
          Becomes(alm_handoff(State, to_agent_id, <<"Demonstrate handoff event emission">>))

TaskNext ==
    \/ ScopeInvokeTool
    \/ FuncReturns
    \/ FuncRaises
    \/ BeginRun
    \/ ExitRun
    \/ EnterTask
    \/ Handoff

TaskSpec == Init /\ [][TaskNext]_vars

-----------------------------------------------------------------------------
(* Runs that are created by alm.run() and entered later, or never:         *)
(* run = alm.run(...) ... with run: ..., around tool calls and handoffs.   *)
(* A run can be created, entered and left while a tool is in progress, by  *)
(* the body of the tool or by another thread of the agent.                 *)

\* alm.run(...)
CreateRun ==
    /\ Len(runs) < MaxCreatedRuns
    /\ Becomes(alm_run(State))

\* with run: for a Run that was not entered yet
EnterRun ==
    \E r \in 1..Len(runs) :
       /\ ~runs[r].started
       /\ Becomes(run_enter(State, r))

\* the with statement that was entered last is left
LeaveRun ==
    \E r \in 1..Len(runs) :
       /\ runs[r].started
       /\ ~runs[r].exited
       /\ \A q \in 1..Len(runs) :
             (runs[q].started /\ ~runs[q].exited) => runs[q].run_id <= runs[r].run_id
       /\ Becomes(run_exit(State, r, NoExc))

\* the agent calls a wrapped tool
CreatedInvokeTool ==
    /\ stack = <<>>
    /\ Len(calls) < MaxCreatedCalls
    /\ \E tool \in ToolNames, dt \in Delays :
          Becomes(wrapper(State, tool, << StrV(<<"h", "i">>) >>, dt))

CreatedNext ==
    \/ CreateRun
    \/ EnterRun
    \/ LeaveRun
    \/ CreatedInvokeTool
    \/ FuncReturns
    \/ Handoff

CreatedSpec == Init /\ [][CreatedNext]_vars

-----------------------------------------------------------------------------
(* Runs around tool calls whose policy check and whose callable can take   *)
(* no measurable time: time.time() returns the same value twice.           *)

\* what the clock advances by between two readings
Latencies == {0, 1}

\* the agent calls a wrapped tool
TimedInvokeTool ==
    /\ stack = <<>>
    /\ Len(calls) < MaxTimedCalls
    /\ \E tool \in ToolNames, dt \in Latencies :
          Becomes(wrapper(State, tool, << StrV(<<"h", "i">>) >>, dt))

\* the body of the tool in progress returns
TimedFuncReturns ==
    /\ stack # <<>>
    /\ \E dt \in Latencies :
          LET result == StrV(<<"o", "k">>)
              s == [State EXCEPT !.now = @ + dt,
                                 !.calls[Top].func = "return",
                                 !.calls[Top].func_value = result]
          IN Becomes(Success(s, Top, result, 0))

TimedNext ==
    \/ TimedInvokeTool
    \/ TimedFuncReturns
    \/ BeginRun
    \/ ExitRun

\* the policies without a budget
TimedInit == Init /\ policy.max_tool_calls_per_run = NoBudget

TimedSpec == TimedInit /\ [][TimedNext]_vars

-----------------------------------------------------------------------------
(* The host calls create_structured_error itself, with and without the     *)
(* retryable flag.                                                         *)

\* the five class names of retryable_errors and two others
ErrorTypes == retryable_errors \cup {"ValueError", "KeyError"}

\* str(exception), character by character: no timeout, timeout in lower
\* case inside a sentence, in mixed case, in upper case, and cut short
ErrorMessages ==
    { <<>>,
      <<"b", "a", "d">>,
      <<"a", " ", "t", "i", "m", "e", "o", "u", "t", "!">>,
      <<"T", "i", "m", "e", "O", "u", "t">>,
      <<"T", "I", "M", "E", "O", "U", "T">>,
      <<"t", "i", "m", "e", " ", "o", "u", "t">> }

ErrorSources == {"tool", "policy", "agent", "system"}

RetryableFlags == {"None", "True", "False"}

\* create_structured_error(exception, source=..., retryable=...)
NormalizeError ==
    /\ Len(errors) < MaxErrors
    /\ \E type \in ErrorTypes, message \in ErrorMessages, source \in ErrorSources, retryable \in RetryableFlags :
          errors' = Append(errors,
                           [exception |-> Exc(type, message), source |-> source,
                            retryable |-> retryable,
                            error |-> create_structured_error_flag(Exc(type, message), source, retryable)])
    /\ UNCHANGED <<policy, runs, current_run, queue, delivered, next_id, now,
                   calls, stack, emitted, passed, last_check, client, stderr,
                   tasks, handoff_calls, threads>>

ErrorNext == NormalizeError

\* one ALM; its policy plays no part
ErrorInit == Init /\ policy = Policy({}, {"y"}, TRUE, NoBudget)

ErrorSpec == ErrorInit /\ [][ErrorNext]_vars

-----------------------------------------------------------------------------
(* One EventClient used by several threads, and a sink that can fail.      *)

Modes == {"stdout", "http"}

\* the threads of the host application that share the client
ThreadIds == {1, 2}

\* a small batch_size, and the default
BatchSizes == {2, batch_size}

\* what print can raise, and what post and raise_for_status can
StdoutFaults == { Exc("BrokenPipeError", <<"[Errno 32] Broken pipe">>) }

HttpFaults ==
    { Exc("ConnectError", <<"[Errno 111] Connection refused">>),
      Exc("HTTPStatusError", <<"Server error '503 Service Unavailable'">>) }

\* EventClient(mode=..., endpoint=..., batch_size=...)
ClientInit ==
    /\ \E mode \in Modes, size \in BatchSizes : client = EventClient(mode, size)
    /\ threads = [t \in ThreadIds |-> Thread]
    /\ policy = Policy({}, {}, TRUE, NoBudget)
    /\ runs = <<>>
    /\ current_run = 0
    /\ queue = <<>>
    /\ delivered = <<>>
    /\ next_id = 0
    /\ now = 0
    /\ calls = <<>>
    /\ stack = <<>>
    /\ emitted = <<>>
    /\ passed = 0
    /\ last_check = NoCheck
    /\ stderr = <<>>
    /\ tasks = <<>>
    /\ handoff_calls = <<>>
    /\ errors = <<>>

\* thread t calls client.emit(event)
ClientEmit(t) ==
    /\ threads[t].pc = "idle"
    /\ Len(emitted) < MaxEmits
    /\ LET s == [TakeId(State) EXCEPT !.threads[t].op = "emit"]
       IN Becomes(client_emit(s, t, Event(s.next_id, "handoff", 0)))

\* thread t calls client.flush()
ClientFlush(t) ==
    /\ threads[t].pc = "idle"
    /\ Becomes([State EXCEPT !.threads[t].pc = "flush", !.threads[t].op = "flush"])

FlushTest(t) ==
    /\ threads[t].pc = "flush"
    /\ Becomes(flush_test(State, t))

FlushCopy(t) ==
    /\ threads[t].pc = "deliver"
    /\ Becomes(flush_copy(State, t))

\* the sink takes the events
FlushDelivers(t) ==
    /\ threads[t].pc = "write"
    /\ IF client.mode = "stdout"
       THEN Becomes(flush_stdout(State, t, NoExc, 0))
       ELSE Becomes(flush_http(State, t, NoExc))

\* the sink fails
FlushFails(t) ==
    /\ threads[t].pc = "write"
    /\ IF client.mode = "stdout"
       THEN \E e \in StdoutFaults, n \in 1..Len(threads[t].events_to_flush) :
               Becomes(flush_stdout(State, t, e, n))
       ELSE \E e \in HttpFaults : Becomes(flush_http(State, t, e))

FlushClear(t) ==
    /\ threads[t].pc = "clear"
    /\ Becomes(flush_finally(State, t))

ClientNext ==
    \E t \in ThreadIds :
       \/ ClientEmit(t)
       \/ ClientFlush(t)
       \/ FlushTest(t)
       \/ FlushCopy(t)
       \/ FlushDelivers(t)
       \/ FlushFails(t)
       \/ FlushClear(t)

ClientSpec == ClientInit /\ [][ClientNext]_vars

-----------------------------------------------------------------------------
(* The same client in single-threaded use: one thread makes every call.    *)

MainThread == 1

\* the smallest batch_size, a small one, and the default
SoloBatchSizes == {1, 2, batch_size}

\* EventClient(mode=..., endpoint=..., batch_size=...)
SoloInit ==
    /\ \E mode \in Modes, size \in SoloBatchSizes : client = EventClient(mode, size)
    /\ threads = [t \in {MainThread} |-> Thread]
    /\ policy = Policy({}, {}, TRUE, NoBudget)
    /\ runs = <<>>
    /\ current_run = 0
    /\ queue = <<>>
    /\ delivered = <<>>
    /\ next_id = 0
    /\ now = 0
    /\ calls = <<>>
    /\ stack = <<>>
    /\ emitted = <<>>
    /\ passed = 0
    /\ last_check = NoCheck
    /\ stderr = <<>>
    /\ tasks = <<>>
    /\ handoff_calls = <<>>
    /\ errors = <<>>

SoloNext ==
    \/ ClientEmit(MainThread)
    \/ ClientFlush(MainThread)
    \/ FlushTest(MainThread)
    \/ FlushCopy(MainThread)
    \/ FlushDelivers(MainThread)
    \/ FlushFails(MainThread)
    \/ FlushClear(MainThread)

SoloSpec == SoloInit /\ [][SoloNext]_vars

-----------------------------------------------------------------------------
(* Redaction: one invocation of a tool that every policy here allows, its  *)
(* argument and its result drawn from nested values.                       *)

\* a short string, a string of max_length + 1 characters, an int and None
Leaves ==
    { StrV(<<"v">>), StrV([i \in 1..(max_length + 1) |-> "a"]), IntV(1), NoneV }

\* a key that holds api_key in another case, and a key that holds none
KeySamples == { StrV(<<"A", "P", "I", "_", "K", "e", "y">>), StrV(<<"n", "a", "m", "e">>) }

\* the values nested at most d deep: dicts, lists and tuples of one item
RECURSIVE Values(_)
Values(d) ==
    IF d = 0 THEN Leaves
    ELSE Leaves
         \cup { DictV(<< <<k, v>> >>) : k \in KeySamples, v \in Values(d - 1) }
         \cup { ListV(<< v >>) : v \in Values(d - 1) }
         \cup { TupleV(<< v >>) : v \in Values(d - 1) }

\* ALM(agent_id=...): the default policy allows every tool
RedactInit ==
    /\ policy = Policy({}, {}, TRUE, NoBudget)
    /\ runs = <<>>
    /\ current_run = 0
    /\ queue = <<>>
    /\ delivered = <<>>
    /\ next_id = 0
    /\ now = 0
    /\ calls = <<>>
    /\ stack = <<>>
    /\ emitted = <<>>
    /\ passed = 0
    /\ last_check = NoCheck
    /\ client = EventClient("stdout", batch_size)
    /\ stderr = <<>>
    /\ tasks = <<>>
    /\ handoff_calls = <<>>
    /\ errors = <<>>
    /\ threads = <<>>

\* the tool is called with one argument
RedactInvoke ==
    /\ calls = <<>>
    /\ \E tool \in ToolNames, v \in Values(MaxDepth), dt \in Delays :
          Becomes(wrapper(State, tool, << v >>, dt))

\* and returns a value
RedactReturns ==
    /\ stack # <<>>
    /\ \E result \in Values(MaxDepth), dt \in Delays, dp \in Delays :
          LET s == [State EXCEPT !.now = @ + dt,
                                 !.calls[Top].func = "return",
                                 !.calls[Top].func_value = result]
          IN Becomes(Success(s, Top, result, dp))

RedactNext ==
    \/ RedactInvoke
    \/ RedactReturns

RedactSpec == RedactInit /\ [][RedactNext]_vars

-----------------------------------------------------------------------------
(* Threads that call wrapped tools on one ALM instance.  Each thread has   *)
(* its own call stack: stack is that of the thread that takes the step.    *)
(* A step runs the wrapper from one call of func to the next, so the read  *)
(* of the counter in check_tool and its increment in record_tool_call are  *)
(* each inside one step.                                                   *)

\* a thread that is in no call invokes a wrapped tool
ThreadInvokeTool ==
    /\ Len(calls) < MaxThreadCalls
    /\ Cardinality({ c \in 1..Len(calls) : calls[c].pc = "body" }) < Cardinality(ThreadIds)
    /\ \E tool \in ToolNames, dt \in Delays :
          Becomes([wrapper(State, tool, << StrV(<<"h", "i">>) >>, dt) EXCEPT !.stack = <<>>])

\* the callable a thread is in returns
ThreadFuncReturns ==
    \E c \in 1..Len(calls), result \in ResultSamples, dt \in Delays, dp \in Delays :
       /\ calls[c].pc = "body"
       /\ LET s == [State EXCEPT !.stack = <<c>>,
                                 !.now = @ + dt,
                                 !.calls[c].func = "return",
                                 !.calls[c].func_value = result]
          IN Becomes(Success(s, c, result, dp))

ThreadNext ==
    \/ ThreadInvokeTool
    \/ ThreadFuncReturns
    \/ BeginRun

ThreadSpec == Init /\ [][ThreadNext]_vars

-----------------------------------------------------------------------------
(* The earlier package, alm_sdk (refresh/src/alm_sdk): its events carry no *)
(* event_id and no tool_call_id, its errors are the text "Type: message",  *)
(* kept here as the type and the message of an error record.               *)

alm_sdk_tool_request_event(run_id, tool_name, args) ==
    [Event(0, "tool.request", run_id) EXCEPT !.tool_name = tool_name, !.args = args]

alm_sdk_policy_decision_event(run_id, tool_name, decision, reason) ==
    [Event(0, "policy.decision", run_id) EXCEPT
        !.tool_name = tool_name, !.decision = decision, !.reason = reason]

alm_sdk_tool_response_event(run_id, tool_name, status, latency_ms, error, result) ==
    [Event(0, "tool.response", run_id) EXCEPT
        !.tool_name = tool_name, !.status = status, !.latency_ms = latency_ms,
        !.error = error, !.result = result]

alm_sdk_run_start_event(run_id) == Event(0, "run.start", run_id)

alm_sdk_run_end_event(run_id, success, error) ==
    [Event(0, "run.end", run_id) EXCEPT !.success = success, !.error = error]

\* safe_error(e), as f"{error_dict['type']}: {error_dict['message']}"
safe_error(e) ==
    [type |-> e.type, message |-> e.message, source |-> "", retryable |-> FALSE]

\* Run.__enter__ of alm_sdk
alm_sdk_run_enter(s, r) ==
    LET s1 == TakeId(s)
        s2 == [s1 EXCEPT !.runs[r].run_id = s1.next_id, !.runs[r].started = TRUE]
        s3 == emit(s2, alm_sdk_run_start_event(s2.runs[r].run_id), 0)
    IN [s3 EXCEPT !.policy = reset_budget(@), !.passed = 0]

\* Run.__exit__ of alm_sdk: it returns False
alm_sdk_run_exit(s, r, exc_val) ==
    IF ~s.runs[r].started
    THEN [s EXCEPT !.runs[r].exited = TRUE, !.runs[r].exit_exc = exc_val,
                   !.runs[r].propagated = exc_val]
    ELSE LET success == exc_val = NoExc
             error == IF exc_val # NoExc THEN safe_error(exc_val) ELSE NoError
             s1 == emit(s, alm_sdk_run_end_event(s.runs[r].run_id, success, error), 0)
         IN [flush(s1) EXCEPT !.runs[r].exited = TRUE, !.runs[r].exit_exc = exc_val,
                              !.runs[r].propagated = exc_val]

\* a denial that answers with a tool.response before it raises
alm_sdk_denied_Responds(s, c, reason) ==
    LET k == s.calls[c]
        s1 == emit(s, alm_sdk_policy_decision_event(current_run_id(s), k.tool, "deny",
                                                    reason), c)
        s2 == emit(s1, alm_sdk_tool_response_event(current_run_id(s1), k.tool, "denied",
                                                   0, NoError, NoneV), c)
    IN Raise(s2, c, DeniedError(k.tool, reason))

\* alm_sdk/tool.py 49-61: if not allowed
alm_sdk_denied(s, c, reason) ==
    LET k == s.calls[c]
        s1 == emit(s, alm_sdk_policy_decision_event(current_run_id(s), k.tool, "deny",
                                                    reason), c)
    IN Raise(s1, c, DeniedError(k.tool, reason))

\* alm_sdk/tool.py 63-81: the allow decision, and func is called
alm_sdk_allowed(s, c, reason) ==
    LET k == s.calls[c]
        s1 == emit(s, alm_sdk_policy_decision_event(current_run_id(s), k.tool, "allow",
                                                    reason), c)
    IN [s1 EXCEPT !.calls[c].tool_start_time = s1.now,
                  !.calls[c].pc = "body",
                  !.calls[c].executed = @ + 1,
                  !.passed = @ + 1]

\* alm_sdk/tool.py 31-61: the wrapper up to the call of func.  The positional
\* arguments are a tuple, which redact_sensitive returns as it is
alm_sdk_wrapper(s, tool, args, dt) ==
    LET c == Len(s.calls) + 1
        parent == IF s.stack = <<>> THEN 0 ELSE s.stack[Len(s.stack)]
        s1 == [s EXCEPT !.calls = Append(@, Call(tool, args, 0, parent)),
                        !.stack = Append(@, c)]
        redacted_args == IF args # <<>> THEN redact_sensitive(TupleV(args))
                         ELSE ListV(<<>>)
        request_args == DictV(<< <<StrV(<<"a", "r", "g", "s">>), redacted_args>>,
                                 <<StrV(<<"k", "w", "a", "r", "g", "s">>), DictV(<<>>)>> >>)
        s2 == emit(s1, alm_sdk_tool_request_event(current_run_id(s1), tool,
                                                  request_args), c)
        check == Check(s2.policy, tool)
        checked == check.answer
        s3 == [s2 EXCEPT !.now = @ + dt,
                         !.policy = check.after,
                         !.last_check = check,
                         !.calls[c].allowed = checked[1],
                         !.calls[c].reason = checked[2],
                         !.calls[c].decisions = Append(@, checked)]
    IN IF ~checked[1]
       THEN alm_sdk_denied(s3, c, checked[2])
       ELSE alm_sdk_allowed(s3, c, checked[2])

\* alm_sdk/tool.py 82-109: func returned result; the finally emits the
\* response, unless the redaction of the result raises in it
alm_sdk_returned(s, c, result) ==
    LET k == s.calls[c]
        s1 == RecordBudget(s, c)
        latency_ms == s.now - k.tool_start_time
    IN IF result # NoneV /\ RedactRaises(result)
       THEN Raise(s1, c, AttributeErrorLower)
       ELSE Return(emit(s1, alm_sdk_tool_response_event(
                                current_run_id(s1), k.tool, "success", latency_ms,
                                NoError,
                                IF result # NoneV THEN redact_sensitive(result)
                                ELSE NoneV), c),
                   c, result)

\* alm_sdk/tool.py 84-106: func raised e; an Exception is counted and
\* reported, anything else passes the except clause with status unchanged
alm_sdk_raised(s, c, e) ==
    LET k == s.calls[c]
        latency_ms == s.now - k.tool_start_time
    IN IF IsException(e)
       THEN LET s1 == RecordBudget(s, c)
            IN Raise(emit(s1, alm_sdk_tool_response_event(
                                  current_run_id(s1), k.tool, "error", latency_ms,
                                  safe_error(e), NoneV), c),
                     c, e)
       ELSE Raise(emit(s, alm_sdk_tool_response_event(
                                current_run_id(s), k.tool, "success", latency_ms,
                                NoError, NoneV), c),
                  c, e)

\* the agent, or the body of the tool in progress, calls a wrapped tool
OldInvokeTool ==
    /\ Len(calls) < MaxOldCalls
    /\ \E tool \in ToolNames, args \in {<<>>, << StrV(<<"h", "i">>) >>}, dt \in Delays :
          Becomes(alm_sdk_wrapper(State, tool, args, dt))

OldFuncReturns ==
    /\ stack # <<>>
    /\ \E result \in ResultSamples, dt \in Delays :
          LET s == [State EXCEPT !.now = @ + dt,
                                 !.calls[Top].func = "return",
                                 !.calls[Top].func_value = result]
          IN Becomes(alm_sdk_returned(s, Top, result))

OldFuncRaises ==
    /\ stack # <<>>
    /\ \E e \in Raisable(Top), dt \in Delays :
          LET s == [State EXCEPT !.now = @ + dt,
                                 !.calls[Top].func = "raise",
                                 !.calls[Top].func_exc = e]
          IN Becomes(alm_sdk_raised(s, Top, e))

\* with alm.run(...)
OldBeginRun ==
    /\ stack = <<>>
    /\ Len(runs) < MaxRuns
    /\ Becomes(alm_sdk_run_enter(alm_run(State), Len(runs) + 1))

\* what the tools called from the top level have raised
RaisedByTools ==
    { calls[i].exc : i \in { j \in 1..Len(calls) :
                               calls[j].parent = 0 /\ calls[j].outcome = "raise" } }

\* the scope is left, normally or by what a tool called in it raised
OldExitRun ==
    /\ stack = <<>>
    /\ \E r \in 1..Len(runs), e \in {NoExc} \cup RaisedByTools :
          /\ runs[r].started
          /\ ~runs[r].exited
          /\ Becomes(alm_sdk_run_exit(State, r, e))

OldNext ==
    \/ OldInvokeTool
    \/ OldFuncReturns
    \/ OldFuncRaises
    \/ OldBeginRun
    \/ OldExitRun

OldSpec == Init /\ [][OldNext]_vars

-----------------------------------------------------------------------------
(* The policy engine on its own: a Policy of any configuration, and calls  *)
(* of its three methods in any order.                                      *)

\* Policy(allowed_tools=..., denied_tools=..., default_allow=...,
\*        max_tool_calls_per_run=...)
PolicyInit ==
    /\ \E a \in SUBSET ToolNames, d \in SUBSET ToolNames, da \in BOOLEAN,
          m \in Budgets :
          policy = Policy(a, d, da, m)
    /\ runs = <<>>
    /\ current_run = 0
    /\ queue = <<>>
    /\ delivered = <<>>
    /\ next_id = 0
    /\ now = 0
    /\ calls = <<>>
    /\ stack = <<>>
    /\ emitted = <<>>
    /\ passed = 0
    /\ last_check = NoCheck
    /\ client = EventClient("stdout", batch_size)
    /\ stderr = <<>>
    /\ tasks = <<>>
    /\ handoff_calls = <<>>
    /\ errors = <<>>
    /\ threads = <<>>

\* policy.check_tool(tool_name)
PolicyCheckTool ==
    /\ \E tool_name \in ToolNames :
          /\ last_check' = Check(policy, tool_name)
          /\ policy' = Check(policy, tool_name).after
    /\ UNCHANGED <<runs, current_run, queue, delivered, next_id, now, calls,
                   stack, emitted, passed, client, stderr, tasks,
                   handoff_calls, threads, errors>>

\* policy.record_tool_call()
PolicyRecordToolCall ==
    /\ policy.tool_call_count < MaxCount
    /\ policy' = record_tool_call(policy)
    /\ UNCHANGED <<runs, current_run, queue, delivered, next_id, now, calls,
                   stack, emitted, passed, last_check, client, stderr, tasks,
                   handoff_calls, threads, errors>>

\* policy.reset_budget()
PolicyResetBudget ==
    /\ policy' = reset_budget(policy)
    /\ UNCHANGED <<runs, current_run, queue, delivered, next_id, now, calls,
                   stack, emitted, passed, last_check, client, stderr, tasks,
                   handoff_calls, threads, errors>>

PolicyNext ==
    \/ PolicyCheckTool
    \/ PolicyRecordToolCall
    \/ PolicyResetBudget

PolicySpec == PolicyInit /\ [][PolicyNext]_vars


-----------------------------------------------------------------------------
(* What the claims speak of. *)

Calls == 1..Len(calls)

Done(i) == calls[i].pc = "done"

\* the events the wrapper of invocation i emitted, in emission order
EventsOf(i) == SelectSeq(emitted, LAMBDA e : e.call = i)

\* those of its attempt a
EventsOfAttempt(i, a) == SelectSeq(emitted, LAMBDA e : e.call = i /\ e.attempt = a)

Types(events) == [k \in 1..Len(events) |-> events[k].event_type]

Triad == <<"tool.request", "policy.decision", "tool.response">>

\* invocation i was denied by the policy, with this reason
DeniedWith(i, reason) ==
    \E n \in 1..Len(calls[i].decisions) :
       calls[i].decisions[n] = <<FALSE, reason>>

IsDenied(i) == \E n \in 1..Len(calls[i].decisions) : ~calls[i].decisions[n][1]

DeniedMessage(i) ==
    <<"Tool '", calls[i].tool, "' denied: ">>
        \o calls[i].decisions[Len(calls[i].decisions)][2]

-----------------------------------------------------------------------------
(* C1: all the tool.request, policy.decision and tool.response events of   *)
(* one invocation carry the same tool_call_id, and events of two different *)
(* invocations never carry the same one.                                   *)
C1_OneToolCallIdPerInvocation ==
    \A j, k \in 1..Len(emitted) :
       (emitted[j].call # 0 /\ emitted[k].call # 0) =>
          ((emitted[j].call = emitted[k].call)
              <=> (emitted[j].tool_call_id = emitted[k].tool_call_id))

\* two invocations have each emitted their three events
C1_Witness ==
    \E i, j \in Calls :
       /\ i # j
       /\ Types(EventsOf(i)) = Triad
       /\ Types(EventsOf(j)) = Triad

(* C2: when the policy check answers deny, the wrapped callable is not run *)
(* for that invocation and the caller gets a PermissionError naming the    *)
(* tool and the reason of the denial.                                      *)
C2_DeniedNeverExecutes ==
    \A i \in Calls :
       IsDenied(i) =>
          /\ calls[i].executed = 0
          /\ calls[i].func = ""
          /\ Done(i)
          /\ calls[i].outcome = "raise"
          /\ calls[i].exc = Exc("PermissionError", DeniedMessage(i))

\* an invocation of a tool on the deny-list, its callable never entered
C2_Witness ==
    \E i \in Calls :
       /\ DeniedWith(i, <<"Tool '", "y", "' is in denied_tools list">>)
       /\ calls[i].executed = 0
       /\ calls[i].outcome = "raise"
       /\ calls[i].exc.type = "PermissionError"

(* C3: a denied invocation emits a tool.request, a policy.decision with    *)
(* decision deny and one tool.response with status denied, in this order   *)
(* and nothing else; the response has tool_latency_ms 0 and a structured   *)
(* error of source policy that carries the reason; no attempt follows.     *)
C3_DeniedTriad ==
    \A i \in Calls :
       IsDenied(i) =>
          LET ev == EventsOf(i) IN
          /\ Types(ev) = Triad
          /\ ev[2].decision = "deny"
          /\ ev[2].reason = calls[i].decisions[1][2]
          /\ ev[3].status = "denied"
          /\ ev[3].tool_latency_ms = 0
          /\ ev[3].error = [type |-> "PermissionError",
                            message |-> DeniedMessage(i),
                            source |-> "policy",
                            retryable |-> FALSE]
          /\ Len(calls[i].decisions) = 1
          /\ calls[i].attempt = 1
          /\ Done(i)

\* a denied invocation whose policy check took time, made inside a run
C3_Witness ==
    \E i \in Calls :
       /\ IsDenied(i)
       /\ Done(i)
       /\ Len(EventsOf(i)) = 3
       /\ EventsOf(i)[3].total_latency_ms > 0
       /\ EventsOf(i)[3].run_id # 0

(* C4: with max_tool_calls_per_run = N, at most N invocations pass the     *)
(* policy check and run their callable between one run entry and the next. *)
C4_BudgetIsCeiling ==
    policy.max_tool_calls_per_run # NoBudget =>
       passed <= policy.max_tool_calls_per_run

(* C5: an invocation that ends in success adds exactly 1 to the budget     *)
(* counter.                                                                *)
C5_SuccessCountsOnce ==
    \A i \in Calls :
       (Done(i) /\ calls[i].outcome = "return") => calls[i].recorded = 1

\* a successful invocation, and the counter shows it
C5_Witness ==
    \E i \in Calls :
       /\ Done(i)
       /\ calls[i].outcome = "return"
       /\ policy.tool_call_count >= 1

(* C6: a retryable failure of the callable reaches the caller only once    *)
(* the retries are used up: with two retries allowed, after the callable   *)
(* has been tried MaxAttempts times.                                       *)
C6_RetryableIsRetried ==
    \A i \in Calls :
       ( /\ Done(i)
         /\ calls[i].outcome = "raise"
         /\ calls[i].func = "raise"
         /\ calls[i].exc = calls[i].func_exc
         /\ IsException(calls[i].exc)
         /\ create_structured_error(calls[i].exc, "tool").retryable )
       => calls[i].executed = MaxAttempts

(* C7: every attempt of an invocation emits its own tool.request,          *)
(* policy.decision and tool.response in this order, the attempts are       *)
(* numbered 1, 2, 3, and the last tool.response has retries = attempt - 1. *)
C7_TriadPerAttempt ==
    \A i \in Calls :
       Done(i) =>
          /\ \A a \in 1..calls[i].attempt : Types(EventsOfAttempt(i, a)) = Triad
          /\ \A k \in 1..Len(EventsOf(i)) :
                EventsOf(i)[k].attempt \in 1..calls[i].attempt
          /\ LET ev == EventsOf(i)
             IN ev # <<>> => ev[Len(ev)].retries = ev[Len(ev)].attempt - 1

(* C8: when the callable returns normally, the caller gets that value as a *)
(* normal return and the budget counter has grown by exactly 1.            *)
C8_ReturnIsPreserved ==
    \A i \in Calls :
       (Done(i) /\ calls[i].func = "return") =>
          /\ calls[i].outcome = "return"
          /\ calls[i].value = calls[i].func_value
          /\ calls[i].recorded = 1


\* the tool.response events of invocation i in a log of events
ResponsesIn(log, i) ==
    SelectSeq(log, LAMBDA e : e.call = i /\ e.event_type = "tool.response")

Responses(i) == ResponsesIn(emitted, i)

\* invocation i, whose locals are k, ended as a failed call: one response with
\* status error, the budget counted once, the failure raised again
C9_ErrorOutcome(k, responses) ==
    /\ Len(responses) = 1
    /\ responses[1].status = "error"
    /\ responses[1].error.type = k.func_exc.type
    /\ responses[1].error.message = k.func_exc.message
    /\ responses[1].error.source = "tool"
    /\ responses[1].attempt = k.attempt
    /\ responses[1].retries = k.retries
    /\ k.recorded = 1
    /\ k.outcome = "raise"
    /\ k.exc = k.func_exc

(* C9 as claimed: when the callable raises a failure that is not retried,  *)
(* the invocation emits one tool.response with status error, the           *)
(* structured error of source tool and the attempt and retries counts,     *)
(* adds 1 to the budget counter, records one statistics update with error  *)
(* set and raises the same failure to the caller.                          *)
C9_FailureAsClaimed ==
    \A i \in Calls :
       (Done(i) /\ calls[i].func = "raise") =>
          /\ C9_ErrorOutcome(calls[i], Responses(i))
          /\ Len(calls[i].stats) = 1
          /\ calls[i].stats[1].error

(* C9, amended: when the callable raises a failure of class Exception that *)
(* is not retried, the invocation emits one tool.response with status      *)
(* error, the structured error of source tool and the attempt and retries  *)
(* counts, adds 1 to the budget counter and raises the same failure; it    *)
(* records one statistics update with error set on alm._current_run when   *)
(* alm.run() has set one, and none when there is no current run.           *)
C9_FailureOfExceptionClass ==
    [][\A i \in Calls :
          ( /\ calls[i].pc = "body"
            /\ calls'[i].pc = "done"
            /\ calls'[i].func = "raise"
            /\ IsException(calls'[i].func_exc)
            /\ ~should_retry(create_structured_error(calls'[i].func_exc, "tool"),
                             calls[i].attempt) )
          => /\ C9_ErrorOutcome(calls'[i], ResponsesIn(emitted', i))
             /\ policy'.tool_call_count = policy.tool_call_count + 1
             /\ IF current_run = 0
                THEN calls'[i].stats = <<>> /\ runs' = runs
                ELSE /\ Len(calls'[i].stats) = 1
                     /\ calls'[i].stats[1].run = current_run
                     /\ calls'[i].stats[1].allowed
                     /\ ~calls'[i].stats[1].denied
                     /\ calls'[i].stats[1].error
                     /\ ~calls'[i].stats[1].retried
                     /\ runs'[current_run].tool_calls_total =
                           runs[current_run].tool_calls_total + 1
                     /\ runs'[current_run].tool_calls_error =
                           runs[current_run].tool_calls_error + 1]_vars

\* a failed invocation inside a run, recorded in the run's statistics
C9_Witness ==
    \E i \in Calls :
       /\ Done(i)
       /\ calls[i].func = "raise"
       /\ calls[i].func_exc.type = "ValueError"
       /\ calls[i].exc = calls[i].func_exc
       /\ Len(calls[i].stats) = 1
       /\ runs[calls[i].stats[1].run].tool_calls_error >= 1
       /\ Responses(i)[1].status = "error"

(* C10: an invocation that has handed control back to its caller has       *)
(* emitted a tool.request, then a policy.decision, then exactly one        *)
(* tool.response, whose status is success for a returned value, denied for *)
(* the permission failure of a denial and error for a failure of the tool. *)
C10_TelemetryBeforeControlReturns ==
    \A i \in Calls :
       Done(i) =>
          LET ev == EventsOf(i) IN
          /\ Len(ev) >= 3
          /\ ev[1].event_type = "tool.request"
          /\ ev[2].event_type = "policy.decision"
          /\ Len(Responses(i)) = 1
          /\ ev[Len(ev)].event_type = "tool.response"
          /\ ev[Len(ev)].status =
                IF calls[i].outcome = "return" THEN "success"
                ELSE IF IsDenied(i) THEN "denied"
                ELSE "error"

-----------------------------------------------------------------------------
(* C11: an invocation executes its callable at most 3 times, and the retry *)
(* loop ends: every execution of the callable that returns or raises       *)
(* either ends the invocation or starts the next attempt, and no attempt   *)
(* has a number above 3.                                                   *)
C11_AtMostThreeAttempts ==
    /\ [](\A i \in Calls : calls[i].executed <= 3 /\ calls[i].attempt <= 3)
    /\ [][\A i \in Calls :
             (calls[i].pc = "body" /\ calls'[i] # calls[i]) =>
                \/ calls'[i].pc = "done"
                \/ /\ calls'[i].pc = "body"
                   /\ calls'[i].attempt = calls[i].attempt + 1
                   /\ calls'[i].executed = calls[i].executed + 1]_vars

\* the callable raised a retryable failure and the invocation has ended
C11_Witness ==
    \E i \in Calls :
       /\ Done(i)
       /\ calls[i].func = "raise"
       /\ create_structured_error(calls[i].func_exc, "tool").retryable
       /\ calls[i].executed = 1
       /\ calls[i].outcome = "raise"

-----------------------------------------------------------------------------
\* the run.start and the run.end events of run r, in emission order
RunStarts(r) ==
    SelectSeq(emitted, LAMBDA e : e.event_type = "run.start"
                                    /\ e.run_id = runs[r].run_id)

RunEnds(r) ==
    SelectSeq(emitted, LAMBDA e : e.event_type = "run.end"
                                    /\ e.run_id = runs[r].run_id)

-----------------------------------------------------------------------------
\* the five steps as one condition: the name passes when none of them denies
FiveStepAllows(p, tool_name) ==
    /\ ~(p.max_tool_calls_per_run # NoBudget
          /\ p.tool_call_count >= p.max_tool_calls_per_run)
    /\ tool_name \notin p.denied_tools
    /\ (p.allowed_tools # {} => tool_name \in p.allowed_tools)
    /\ (p.allowed_tools = {} => p.default_allow)

(* C14: for every tool name, allow-set, deny-set, default_allow, budget    *)
(* and counter value, check_tool answers as the five steps do (budget,     *)
(* deny-set, allow-set, default, allow), and leaves the counter as it was. *)
C14_CheckToolIsFiveStep ==
    last_check.tool # "" =>
       /\ last_check.answer[1] = FiveStepAllows(last_check.before, last_check.tool)
       /\ last_check.after.tool_call_count = last_check.before.tool_call_count

\* a check that denied for the budget, the counter having reached the limit
C14_Witness ==
    /\ last_check.tool = "x"
    /\ last_check.before.max_tool_calls_per_run = 1
    /\ last_check.before.tool_call_count = 1
    /\ last_check.before.allowed_tools = {"x"}
    /\ last_check.answer = BudgetExceeded(last_check.before)
    /\ last_check.after = last_check.before

(* C15: a tool whose name is in the deny-set is denied in every state and  *)
(* configuration, also when the name is in the allow-set too, and its      *)
(* callable is never executed.                                             *)
C15_DenySetWins ==
    \A i \in Calls :
       calls[i].tool \in policy.denied_tools =>
          /\ calls[i].executed = 0
          /\ \A n \in 1..Len(calls[i].decisions) : ~calls[i].decisions[n][1]

\* a tool on both lists was called, denied for the deny-list and not run
C15_Witness ==
    \E i \in Calls :
       /\ calls[i].tool \in policy.denied_tools \cap policy.allowed_tools
       /\ calls[i].decisions = << InDeniedTools(calls[i].tool) >>
       /\ Done(i)
       /\ calls[i].executed = 0

\* the budget leaves room for a call
WithinBudget(p) ==
    p.max_tool_calls_per_run = NoBudget
       \/ p.tool_call_count < p.max_tool_calls_per_run

-----------------------------------------------------------------------------
\* this step enters a run scope
EntersRun ==
    \E r \in 1..Len(runs') :
       /\ runs'[r].started
       /\ r > Len(runs) \/ ~runs[r].started

C18_CountsEveryDecision ==
    \A i \in Calls :
       (Done(i) /\ calls[i].decisions # <<>>) => calls[i].recorded = 1

(* C18, amended: the budget counter grows only at the terminal outcome of  *)
(* an invocation the policy allowed, after its callable has returned or    *)
(* raised; a denied invocation leaves the counter as it was.               *)
C18_CountsAllowedOnly ==
    /\ [](\A i \in Calls : IsDenied(i) => calls[i].recorded = 0)
    /\ [][policy'.tool_call_count > policy.tool_call_count =>
             \E i \in Calls :
                /\ calls[i].pc = "body"
                /\ calls[i].allowed
                /\ calls'[i].pc = "done"
                /\ calls'[i].func # ""
                /\ calls'[i].recorded > calls[i].recorded]_vars

\* a call took the one unit of budget, the next was denied and added nothing
C18_Witness ==
    \E i, j \in Calls :
       /\ calls[i].recorded = 1
       /\ calls[j].decisions = << BudgetExceeded(policy) >>
       /\ Done(j)
       /\ calls[j].recorded = 0
       /\ policy.tool_call_count = 1

\* a run is active when the k-th event is emitted: a run.start came before
\* it and the run.end of that run did not
ActiveAt(k) ==
    \E j \in 1..(k - 1) :
       /\ emitted[j].event_type = "run.start"
       /\ \A m \in (j + 1)..(k - 1) :
             ~(emitted[m].event_type = "run.end"
                  /\ emitted[m].run_id = emitted[j].run_id)

(* C19: every event emitted while no run is active, before any run was     *)
(* entered or after the run entered last was left, has no run_id.          *)
C19_NoRunIdOutsideRun ==
    \A k \in 1..Len(emitted) :
       (emitted[k].event_type \notin {"run.start", "run.end"} /\ ~ActiveAt(k))
          => emitted[k].run_id = 0

(* C20: the statistics of a run change only while the run is active: a     *)
(* tool invocation made before the run is entered or after it was left     *)
(* leaves the counters and the latency samples of every run as they were.  *)
C20_StatisticsOnlyWhileActive ==
    [][\A r \in 1..Len(runs) :
          (~runs[r].started \/ runs[r].exited) => runs'[r] = runs[r]]_vars

-----------------------------------------------------------------------------
\* the place in emitted of the run.start of run r, 0 when it has none
StartOf(r) ==
    IF \E k \in 1..Len(emitted) :
          emitted[k].event_type = "run.start" /\ emitted[k].run_id = runs[r].run_id
    THEN CHOOSE k \in 1..Len(emitted) :
            emitted[k].event_type = "run.start" /\ emitted[k].run_id = runs[r].run_id
    ELSE 0

EndOf(r) ==
    IF \E k \in 1..Len(emitted) :
          emitted[k].event_type = "run.end" /\ emitted[k].run_id = runs[r].run_id
    THEN CHOOSE k \in 1..Len(emitted) :
            emitted[k].event_type = "run.end" /\ emitted[k].run_id = runs[r].run_id
    ELSE Len(emitted) + 1

\* run r was entered while an earlier run was active
EnteredInside(r) ==
    \E q \in 1..(r - 1) : StartOf(q) # 0 /\ EndOf(q) > StartOf(r)

-----------------------------------------------------------------------------
\* the events of one kind that carry the task_id of tasks[t]
TaskEvents(t, event_type) ==
    SelectSeq(emitted, LAMBDA e : e.event_type = event_type
                                    /\ e.task_id = tasks[t].task_id)

(* C22: a task scope whose with statement was executed has emitted one     *)
(* task.start; once the statement is over it has emitted one task.end with *)
(* the same task_id, whose success is true exactly when the statement      *)
(* raised nothing to its caller, and what the body raised is what the      *)
(* caller gets.                                                            *)
C22_TaskStartAndEnd ==
    \A t \in 1..Len(tasks) :
       /\ Len(TaskEvents(t, "task.start")) = 1
       /\ tasks[t].pc = "done" =>
             /\ Len(TaskEvents(t, "task.end")) = 1
             /\ TaskEvents(t, "task.end")[1].success = (tasks[t].exc = NoExc)

-----------------------------------------------------------------------------
(* C23: when a flush is over the queue is empty, whether the sink took the *)
(* events or failed (print raised, post raised, or the status was not 2xx  *)
(* and raise_for_status raised), and the failure is written to stderr and  *)
(* never raised to the caller of flush or of emit.                         *)
C23_FlushClearsAndNeverRaises ==
    /\ [](\A t \in 1..Len(threads) : threads[t].raised = NoExc)
    /\ [][\A t \in 1..Len(threads) :
             (threads[t].pc = "clear" /\ threads'[t].pc = "idle") =>
                queue' = <<>>]_vars
    /\ [][\A t \in 1..Len(threads) :
             (threads[t].pc = "write" /\ threads'[t].pc # "write") =>
                /\ threads'[t].pc = "clear"
                /\ \/ delivered' = delivered \o threads[t].events_to_flush
                   \/ Len(stderr') = Len(stderr) + 1]_vars

\* an http client whose post failed: the flush that emit started at
\* batch_size is over, the queue is empty and the events are nowhere
C23_Witness ==
    /\ client = EventClient("http", 2)
    /\ Len(emitted) = 2
    /\ Len(stderr) = 1
    /\ \A t \in 1..Len(threads) : threads[t].pc = "idle" /\ threads[t].raised = NoExc
    /\ queue = <<>>
    /\ delivered = <<>>

\* the elements of a sequence
Range(seq) == { seq[k] : k \in 1..Len(seq) }

\* the events a flush in progress has copied and not yet handed to the sink
InFlight ==
    UNION { Range(threads[t].events_to_flush) :
               t \in { u \in 1..Len(threads) : threads[u].pc = "write" } }

(* C26: as long as no delivery has failed, every event passed to emit is   *)
(* in the queue, in the hands of a flush in progress, or delivered, and no *)
(* event is delivered twice.                                               *)
C26_DeliveredExactlyOnce ==
    stderr = <<>> =>
       /\ Range(emitted) \subseteq Range(queue) \cup InFlight \cup Range(delivered)
       /\ \A j, k \in 1..Len(delivered) : delivered[j] = delivered[k] => j = k

-----------------------------------------------------------------------------
\* redaction as the claim words it: through dicts, lists and tuples alike
RECURSIVE Redacted(_)
Redacted(v) ==
    CASE v.kind = "str" ->
           IF Len(v.chars) > max_length
           THEN StrV(SubSeq(v.chars, 1, max_length) \o TruncatedMarker)
           ELSE v
      [] v.kind = "dict" ->
           DictV([i \in 1..Len(v.items) |->
                    IF IsSensitiveKey(v.items[i][1])
                    THEN <<v.items[i][1], RedactedMarker>>
                    ELSE <<v.items[i][1], Redacted(v.items[i][2])>>])
      [] v.kind \in {"list", "tuple"} ->
           [v EXCEPT !.items = [i \in 1..Len(v.items) |-> Redacted(v.items[i])]]
      [] OTHER -> v

(* C24: the args of every tool.request and the result of every success     *)
(* tool.response are the arguments and the returned value with the value   *)
(* of every sensitive key replaced by the marker, at every depth inside    *)
(* dicts, lists and tuples, every string above the threshold truncated,    *)
(* and everything else as it was.                                          *)
C24_RedactionEverywhere ==
    \A k \in 1..Len(emitted) :
       LET e == emitted[k] IN
       /\ e.event_type = "tool.request" =>
             e.args = Redacted(normalize_args(Params, calls[e.call].args))
       /\ (e.event_type = "tool.response" /\ e.status = "success") =>
             e.result = Redacted(calls[e.call].func_value)

-----------------------------------------------------------------------------
\* the invocations whose callable was executed and whose events carry the
\* run_id of run r
ExecutedIn(r) ==
    { i \in Calls : /\ calls[i].executed > 0
                    /\ EventsOf(i) # <<>>
                    /\ EventsOf(i)[1].run_id = runs[r].run_id }

(* C25: with threads calling wrapped tools at the same time, the number of *)
(* invocations of one run that passed the policy check and executed their  *)
(* callable is at most max_tool_calls_per_run.                             *)
C25_CeilingUnderThreads ==
    \A r \in 1..Len(runs) :
       policy.max_tool_calls_per_run # NoBudget =>
          Cardinality(ExecutedIn(r)) <= policy.max_tool_calls_per_run

-----------------------------------------------------------------------------
\* the emitted events of one kind
EventsOfType(event_type) == SelectSeq(emitted, LAMBDA e : e.event_type = event_type)

(* C27: every emitted event carries an event_id and no two carry the same  *)
(* one; the run scope, the task scopes and alm.handoff() emit their events *)
(* like the wrapper does: each entered task has its task.start and each    *)
(* call of alm.handoff() its handoff event.                                *)
C27_EveryEventHasItsEventId ==
    /\ \A k \in 1..Len(emitted) : emitted[k].event_id # 0
    /\ \A j, k \in 1..Len(emitted) :
          emitted[j].event_id = emitted[k].event_id => j = k
    /\ Len(EventsOfType("task.start")) = Len(tasks)
    /\ Len(EventsOfType("handoff")) = Len(handoff_calls)

-----------------------------------------------------------------------------
(* C28: in the alm_sdk package a denied invocation emits a tool.request    *)
(* and a policy.decision with decision deny and nothing else, does not run *)
(* the callable, raises PermissionError and leaves the budget counter as   *)
(* it was; the run scope around it emits its run.end when it is left,      *)
(* whether the PermissionError was caught inside it or leaves it.          *)
C28_OldDenialHasNoResponse ==
    /\ [](\A i \in Calls :
            IsDenied(i) =>
               /\ Types(EventsOf(i)) = <<"tool.request", "policy.decision">>
               /\ EventsOf(i)[2].decision = "deny"
               /\ calls[i].executed = 0
               /\ calls[i].outcome = "raise"
               /\ calls[i].exc = Exc("PermissionError", DeniedMessage(i))
               /\ calls[i].recorded = 0)
    /\ [](\A r \in 1..Len(runs) : runs[r].exited => Len(RunEnds(r)) = 1)
    /\ [][\A i \in 1..Len(calls') :
             (IsDenied(i)' /\ (i > Len(calls) \/ ~IsDenied(i))) =>
                policy'.tool_call_count = policy.tool_call_count]_vars

\* test_tool_deny: a tool on the deny-list called in a run, the run left
\* normally; request, decision and run.end were written out, no response
C28_Witness ==
    \E i \in Calls, r \in 1..Len(runs) :
       /\ DeniedWith(i, <<"Tool '", "y", "' is in denied_tools list">>)
       /\ EventsOf(i)[1].run_id = runs[r].run_id
       /\ runs[r].exited
       /\ runs[r].exit_exc = NoExc
       /\ Types(delivered) = <<"run.start", "tool.request", "policy.decision", "run.end">>

-----------------------------------------------------------------------------
\* the retry rule as the claim words it
Eligible(e, attempt) ==
    /\ create_structured_error(e, "tool").retryable
    /\ attempt <= max_retries
    /\ attempt < MaxAttempts

-----------------------------------------------------------------------------
\* the statistics updates the wrappers have made on run r
UpdatesOf(r) ==
    { <<i, n>> \in Calls \X (1..MaxAttempts) :
         n <= Len(calls[i].stats) /\ calls[i].stats[n].run = r }

\* the relations between the counters of run r
C30_CountersAgree(r) ==
    /\ runs[r].tool_calls_total = Cardinality(UpdatesOf(r))
    /\ runs[r].tool_calls_total = runs[r].tool_calls_allowed + runs[r].tool_calls_denied
    /\ runs[r].tool_calls_error <= runs[r].tool_calls_allowed

(* C30: an invocation made while a run is active and ended has caused one  *)
(* statistics update for each of its attempts, and in every state          *)
(* tool_calls_total is the number of updates made on the run,              *)
(* tool_calls_total = tool_calls_allowed + tool_calls_denied and           *)
(* tool_calls_error <= tool_calls_allowed.                                 *)
C30_OneUpdatePerAttempt ==
    \A r \in 1..Len(runs) :
       /\ C30_CountersAgree(r)
       /\ \A i \in Calls :
             ( /\ r = current_run
               /\ runs[r].started
               /\ ~runs[r].exited
               /\ calls[i].tool_call_id > runs[r].run_id
               /\ Done(i) )
             => Len(calls[i].stats) = calls[i].attempt

\* the relations between the counters alone
C30_Counters == \A r \in 1..Len(runs) : C30_CountersAgree(r)

-----------------------------------------------------------------------------
\* the statistics updates made on run r between its entry and its exit
UpdatesInside(r) ==
    { u \in UpdatesOf(r) :
         LET at == calls[u[1]].stats[u[2]].at
         IN at >= StartOf(r) /\ at < EndOf(r) }

\* the handoff calls made between the entry and the exit of run r
HandoffsInside(r) ==
    { h \in 1..Len(handoff_calls) :
         handoff_calls[h].at >= StartOf(r) /\ handoff_calls[h].at < EndOf(r) }

\* the task scopes that exited between the entry and the exit of run r,
\* normally (ok) or by an exception
TaskExitsInside(r, ok) ==
    { t \in 1..Len(tasks) :
         /\ tasks[t].exited
         /\ (tasks[t].exc = NoExc) = ok
         /\ tasks[t].exit_at >= StartOf(r) /\ tasks[t].exit_at < EndOf(r) }

(* C31: the summary of a run.end reports as tasks completed and failed the *)
(* task scopes that exited normally and by an exception between the entry  *)
(* and the exit of the run, as handoffs the handoff calls made in that     *)
(* interval, and as tool-call counts the statistics updates made in it.    *)
C31_SummaryCountsTheRunOnly ==
    \A r \in 1..Len(runs) :
       (StartOf(r) # 0 /\ EndOf(r) <= Len(emitted)) =>
          LET summary == emitted[EndOf(r)].summary
              inside == UpdatesInside(r)
              Count(field) ==
                 Cardinality({ u \in inside : calls[u[1]].stats[u[2]][field] })
          IN /\ summary.tasks_completed = Cardinality(TaskExitsInside(r, TRUE))
             /\ summary.tasks_failed = Cardinality(TaskExitsInside(r, FALSE))
             /\ summary.handoffs = Cardinality(HandoffsInside(r))
             /\ summary.tool_calls_total = Cardinality(inside)
             /\ summary.tool_calls_allowed = Count("allowed")
             /\ summary.tool_calls_denied = Count("denied")
             /\ summary.tool_calls_error = Count("error")
             /\ summary.tool_calls_retried = Count("retried")

-----------------------------------------------------------------------------
\* message holds the letters of timeout in a row, each in either case
SaysTimeout(message) ==
    LET lower == <<"t", "i", "m", "e", "o", "u", "t">>
        upper == <<"T", "I", "M", "E", "O", "U", "T">>
    IN \E i \in 0..(Len(message) - 7) :
          \A j \in 1..7 : message[i + j] \in {lower[j], upper[j]}

(* C32: create_structured_error gives the record the class name of the     *)
(* exception as type and the source passed in as source; retryable is the  *)
(* caller's flag when one is given, true or false, and otherwise true      *)
(* exactly when the class name is one of ConnectionError, TimeoutError,    *)
(* TemporaryFailure, RateLimitError, ServiceUnavailableError or the        *)
(* message holds timeout in any letter case.                               *)
C32_RetryableFlagWins ==
    \A k \in 1..Len(errors) :
       LET call == errors[k]
       IN /\ call.error.type = call.exception.type
          /\ call.error.source = call.source
          /\ call.retryable = "True" => call.error.retryable
          /\ call.retryable = "False" => ~call.error.retryable
          /\ call.retryable = "None" =>
                call.error.retryable =
                   ( \/ call.exception.type \in
                          {"ConnectionError", "TimeoutError", "TemporaryFailure",
                           "RateLimitError", "ServiceUnavailableError"}
                     \/ SaysTimeout(call.exception.message) )

\* a TimeoutError whose message says TimeOut, normalized with retryable=False
C32_Witness ==
    \E k \in 1..Len(errors) :
       /\ errors[k].retryable = "False"
       /\ errors[k].exception = Exc("TimeoutError", <<"T", "i", "m", "e", "O", "u", "t">>)
       /\ ~errors[k].error.retryable

-----------------------------------------------------------------------------
-----------------------------------------------------------------------------
(* C34: the events of one tool invocation, its requests, decisions and     *)
(* responses, all carry the same run_id, also when a run is created,       *)
(* entered or left while the invocation is in progress.                    *)
C34_OneRunIdPerInvocation ==
    \A i \in Calls :
       \A j, k \in 1..Len(EventsOf(i)) :
          EventsOf(i)[j].run_id = EventsOf(i)[k].run_id

-----------------------------------------------------------------------------
\* the runs that were entered and not left yet
ActiveRuns == { r \in 1..Len(runs) : runs[r].started /\ ~runs[r].exited }

(* C35: while exactly one run is active, every tool, decision, task and    *)
(* handoff event that is emitted carries the run_id of that run, and every *)
(* statistics update is made on that run, whatever Run objects alm.run()   *)
(* has created beside it.                                                  *)
C35_TheActiveRunGetsEverything ==
    [][ \A r \in 1..Len(runs) :
           ActiveRuns = {r} =>
              /\ \A k \in (Len(emitted) + 1)..Len(emitted') :
                    emitted'[k].event_type \notin {"run.start", "run.end"}
                       => emitted'[k].run_id = runs[r].run_id
              /\ \A q \in (1..Len(runs)) \ {r} :
                    /\ runs'[q].tool_calls_total = runs[q].tool_calls_total
                    /\ runs'[q].handoffs = runs[q].handoffs
                    /\ runs'[q].tasks_completed = runs[q].tasks_completed
                    /\ runs'[q].tasks_failed = runs[q].tasks_failed ]_vars

-----------------------------------------------------------------------------
\* the place in emitted of the run.start emitted last, 0 when there is none
LastEntry ==
    IF \E k \in 1..Len(emitted) : emitted[k].event_type = "run.start"
    THEN CHOOSE k \in 1..Len(emitted) :
            /\ emitted[k].event_type = "run.start"
            /\ \A m \in (k + 1)..Len(emitted) : emitted[m].event_type # "run.start"
    ELSE 0

\* the invocations that ended in a success or an error since then
TerminalSinceEntry ==
    { i \in Calls :
         \E k \in (LastEntry + 1)..Len(emitted) :
            /\ emitted[k].call = i
            /\ emitted[k].event_type = "tool.response"
            /\ emitted[k].status \in {"success", "error"} }

(* C36: the budget counter is the number of tool invocations that ended in *)
(* a success or in an error since the run entry made last, or since the    *)
(* ALM was constructed when no run was entered; invocations outside a run  *)
(* count, denied ones do not.                                              *)
C36_BudgetCountsTerminalInvocations ==
    policy.tool_call_count = Cardinality(TerminalSinceEntry)

-----------------------------------------------------------------------------
\* the event_ids of a sequence of events grow from each to the next
Ascending(events) ==
    \A j, k \in 1..Len(events) : j < k => events[j].event_id < events[k].event_id

\* the emitted events that are neither queued nor delivered
Dropped == { e \in Range(emitted) : e \notin Range(queue) /\ e \notin Range(delivered) }

(* C37: with one thread, the delivered events are a subsequence of the     *)
(* emitted ones, in the order of emission and each at most once; when no   *)
(* delivery has failed and a flush has emptied the queue, the delivered    *)
(* sequence is the emitted sequence; and an event that left the queue      *)
(* undelivered, as those of a failed batch do, is never delivered later.   *)
C37_DeliveredIsOrderedSubsequence ==
    /\ []( /\ Ascending(emitted)
           /\ Ascending(delivered)
           /\ Range(delivered) \subseteq Range(emitted)
           /\ ( /\ stderr = <<>>
                /\ queue = <<>>
                /\ threads[MainThread].pc = "idle" ) => delivered = emitted )
    /\ [][ \A e \in Dropped : e \notin Range(delivered') ]_vars

\* a batch of two failed at its second event, and the event emitted after
\* it was delivered: the first and the third are delivered, the second not
C37_Witness ==
    /\ client.mode = "stdout"
    /\ Len(emitted) = 3
    /\ stderr # <<>>
    /\ delivered = << emitted[1], emitted[3] >>
    /\ queue = <<>>
    /\ threads[MainThread].pc = "idle"

-----------------------------------------------------------------------------
(* C39: when emit has returned, and flush has, the queue holds fewer than  *)
(* batch_size events: an emit that brings it to batch_size flushes it      *)
(* before it returns.                                                      *)
C39_QueueBelowBatchSize ==
    threads[MainThread].pc = "idle" => Len(queue) < client.batch_size

\* batch_size 2: the second emit has returned and left the queue empty
C39_Witness ==
    /\ client.batch_size = 2
    /\ Len(emitted) = 2
    /\ threads[MainThread].op = "emit"
    /\ threads[MainThread].pc = "idle"
    /\ queue = <<>>
    /\ delivered = emitted

-----------------------------------------------------------------------------
\* the tool.response events emitted with the run_id of run r before its run.end
ResponsesInside(r) ==
    { k \in 1..(EndOf(r) - 1) :
         /\ emitted[k].event_type = "tool.response"
         /\ emitted[k].run_id = runs[r].run_id }

====
